---- MODULE Spec2Model ----
(***************************************************************************)
(* Allowance ledger of the household chore tracker: the remote-backed      *)
(* CosmosAllowanceRepository (src/src/cosmosdb_manager.py) and the         *)
(* file-backed FileAllowanceRepository (src/src/jsonfile_manager.py),      *)
(* behind AllowanceRepositoryProtocol (src/src/storage_factory.py).        *)
(*                                                                         *)
(* Numbers.  Balances and amounts are Python floats.  A float is modelled  *)
(* as an integer count of the smallest representable step, and every       *)
(* float operation rounds its exact result to MantBits significant bits,   *)
(* ties to even, as IEEE-754 binary64 does with 53 bits.                   *)
(*                                                                         *)
(* Time.  datetime.now(timezone.utc) reads a clock that has advanced       *)
(* since the previous reading; isoformat() renders it as a string, and     *)
(* both backends order transactions by comparing these strings.            *)
(***************************************************************************)
EXTENDS Integers, Sequences, FiniteSets, TLC

\* ---------------------------------------------------------------- bounds
MaxClock == 3          \* readings of the clock (mutating calls) in one run
MantBits == 3          \* significant bits of the modelled float
TicksPerSecond == 2    \* clock readings per whole second
TtlTicks == 1          \* configured retention, in clock ticks

\* ---------------------------------------------------------------- inputs
UserIds == {"Milou", "Zoe"}
Amounts == {10, -1}
TxTypes == {"MANUAL"}
None == <<>>
Descriptions == {None}
Limits == {1, 2}
SettingsInputs ==
    { [weeklyAllowance |-> 5, pocket |-> 1] }
\* the `replace` argument: omitted, or passed as True / False
ReplaceArgs == {<<>>, <<TRUE>>, <<FALSE>>}

\* ---------------------------------------------------------------- floats
Abs(x) == IF x < 0 THEN -x ELSE x

RECURSIVE Pow2(_)
Pow2(n) == IF n = 0 THEN 1 ELSE 2 * Pow2(n - 1)

\* round an exact value to MantBits significant bits, ties to even
RoundFloat(x) ==
    LET a == Abs(x)
    IN  IF a < Pow2(MantBits) THEN x
        ELSE LET e    == CHOOSE k \in 1..16 :
                            Pow2(MantBits + k - 1) <= a /\ a < Pow2(MantBits + k)
                 step == Pow2(e)
                 q    == a \div step
                 r    == a % step
                 up   == (2 * r > step) \/ (2 * r = step /\ q % 2 = 1)
                 m    == IF up THEN (q + 1) * step ELSE q * step
             IN  IF x < 0 THEN -m ELSE m

\* float(x)
ToFloat(x) == RoundFloat(x)
\* a + b and a - b on floats
FAdd(a, b) == RoundFloat(a + b)
FSub(a, b) == RoundFloat(a - b)

\* ---------------------------------------------------------------- time
\* Characters are their code points: '+' = 43, '.' = 46, '0' = 48.
\* (variant) the UTC offset printed as 'Z' (code point 90)
IsoFormat_Zulu(t) ==
    LET sec  == t \div TicksPerSecond
        frac == t % TicksPerSecond
    IN  <<48 + sec>> \o (IF frac = 0 THEN <<>> ELSE <<46, 48 + frac>>) \o <<90>>

\* isoformat() prints the whole seconds in a fixed width, then the
\* fraction only when it is not zero, then the UTC offset.
IsoFormat(t) ==
    LET sec  == t \div TicksPerSecond
        frac == t % TicksPerSecond
    IN  <<48 + sec>> \o (IF frac = 0 THEN <<>> ELSE <<46, 48 + frac>>) \o <<43>>

\* Python's (and the database's) ordering of strings: s < t
RECURSIVE StrLess(_, _)
StrLess(s, t) ==
    IF t = <<>> THEN FALSE
    ELSE IF s = <<>> THEN TRUE
    ELSE IF Head(s) # Head(t) THEN Head(s) < Head(t)
    ELSE StrLess(Tail(s), Tail(t))

\* ---------------------------------------------------------------- documents
NoDoc == [entityType |-> "none"]
EmptyDict == [entityType |-> "empty"]

\* CosmosAllowanceRepository._default_account
CosmosDefaultAccount(u) ==
    [ id             |-> <<"account_", u>>,
      entityType     |-> "account",
      userId         |-> u,
      currentBalance |-> ToFloat(0),
      currency       |-> "EUR",
      settings       |-> [ weeklyAllowance   |-> 4,
                           tasksPerWeek      |-> 7,
                           bonusPerExtraTask |-> 1,
                           maximumExtraTasks |-> 4 ],
      lastUpdated    |-> None,
      version        |-> 1 ]

\* default_account() of FileAllowanceStore.get_default_content, and the
\* literal of FileAllowanceRepository._ensure_user
FileDefaultAccount ==
    [ id             |-> None,
      entityType     |-> "account",
      currentBalance |-> ToFloat(0),
      currency       |-> "EUR",
      settings       |-> [ weeklyAllowance  |-> 0,
                           autoPayDayOfWeek |-> 5 ],
      lastUpdated    |-> None,
      version        |-> 1 ]

FileDefaultUser == [account |-> FileDefaultAccount, transactions |-> <<>>]

\* FileAllowanceStore.get_default_content
FileDefaultContent == [u \in {"Milou", "Luca"} |-> FileDefaultUser]

\* dict.update(): the keys of `new` take their new values, the others stay
DictUpdate(old, new) ==
    [k \in (DOMAIN old) \cup (DOMAIN new) |->
        IF k \in DOMAIN new THEN new[k] ELSE old[k]]

\* the transaction document built by add_transaction (both backends)
TxDoc(prefix, u, n, now, amount, tx_type, description, new_balance) ==
    [ id           |-> <<prefix, u, n>>,
      entityType   |-> "transaction",
      userId       |-> u,
      timestamp    |-> now,
      amount       |-> ToFloat(amount),
      direction    |-> IF amount >= 0 THEN "credit" ELSE "debit",
      type         |-> tx_type,
      description  |-> description,
      balanceAfter |-> new_balance ]

\* ---------------------------------------------------------------- state
VARIABLES
    backend,      \* "cosmos" or "file": the repository the factory returned
    ttl_seconds,  \* CosmosAllowanceRepository.ttl_seconds (None or a number)
    accounts,     \* allowance-ledger container: the account document per user
    txdocs,       \* allowance-ledger container: the transaction documents
    file,         \* allowance_state.json: [exists, data]
    clock,        \* the last reading of the wall clock
    uuids,        \* uuid4 values handed out so far
    last          \* the last repository call: arguments and what it returned

VARIABLES
    state_backend, \* "cosmos" or "file": the state store the factory returned
    state_file,    \* household_state.json: [exists, text]
    state_item,    \* chores-state container: the item with id "state"
    config_file,   \* task_config.json: [exists, text]
    store_last     \* the last store call: argument, result, what it raised

VARIABLES
    env,           \* the process environment the factories run in
    created        \* what the last factory call returned or raised

VARIABLES
    handlers       \* the repository calls in progress: position and locals

VARIABLES
    request,       \* the last HTTP request: handler, user_id and argument
    response,      \* the last HTTP response: status and JSON body
    caught         \* the exception the handler caught (NoException if none)

ledgerVars == <<backend, ttl_seconds, accounts, txdocs, file, clock, uuids, last>>
storeVars == <<state_backend, state_file, state_item, config_file, store_last>>
factoryVars == <<env, created>>
apiVars == <<request, response, caught>>
handlerVars == <<handlers>>

vars == <<ledgerVars, storeVars, factoryVars, apiVars, handlerVars>>

NoFile == [exists |-> FALSE, data |-> [u \in {} |-> FileDefaultUser]]

Call(op, u, args, outcome, account, tx, list) ==
    [ op |-> op, user |-> u, args |-> args, outcome |-> outcome,
      account |-> account, tx |-> tx, list |-> list ]


\* ---------------------------------------------------------------- helpers
Min(a, b) == IF a <= b THEN a ELSE b

\* seq[:limit] for a positive limit
Slice(seq, limit) == SubSeq(seq, 1, Min(limit, Len(seq)))

\* new_balance = old_balance + float(amount)          (add_transaction)
NewBalance(old_balance, amount) == FAdd(old_balance, ToFloat(amount))

\* new_balance = old_balance - float(amount)          (delete_last_transaction)
BalanceWithout(old_balance, amount) == FSub(old_balance, ToFloat(amount))

\* account["version"] = int(account.get("version", 1)) + 1
BumpVersion(version) == version + 1

\* (variant) add_transaction that forgets to store the new balance
AccountAfterAdd_KeepsBalance(account, new_balance, now) ==
    [account EXCEPT !.lastUpdated = now, !.version = @ + 1]

\* the account after add_transaction's three assignments
AccountAfterAdd(account, new_balance, now) ==
    [account EXCEPT !.currentBalance = new_balance,
                    !.lastUpdated    = now,
                    !.version        = BumpVersion(@)]

\* settings.update(new_settings) on account.setdefault("settings", {})
MergedSettings(settings, new_settings) == DictUpdate(settings, new_settings)

\* (variant) update_settings that writes a fresh balance with the settings
AccountAfterSettings_ResetsBalance(account, settings, now) ==
    [account EXCEPT !.settings       = settings,
                    !.currentBalance = ToFloat(0),
                    !.lastUpdated    = now,
                    !.version        = @ + 1]

\* the account after update_settings' assignments
AccountAfterSettings(account, settings, now) ==
    [account EXCEPT !.settings    = settings,
                    !.lastUpdated = now,
                    !.version     = BumpVersion(@)]

\* ---------------------------------------------------------------- Cosmos
\* the transaction documents of a user's partition
UserTxDocs(docs, u) ==
    {t \in docs : t.entityType = "transaction" /\ t.userId = u}

\* ... ORDER BY c.timestamp DESC
RECURSIVE OrderByTimestampDesc(_)
OrderByTimestampDesc(S) ==
    IF S = {} THEN <<>>
    ELSE LET m == CHOOSE t \in S :
                    \A o \in S : ~StrLess(t.timestamp, o.timestamp)
         IN  <<m>> \o OrderByTimestampDesc(S \ {m})

\* (variant) the query ordered oldest first
QueryTop_OldestFirst(docs, u, n) ==
    LET newest == OrderByTimestampDesc(UserTxDocs(docs, u))
    IN  Slice([i \in 1..Len(newest) |-> newest[Len(newest) + 1 - i]], n)

\* SELECT TOP n * FROM c WHERE entityType = 'transaction' AND userId = u
\* ORDER BY c.timestamp DESC
QueryTop(docs, u, n) == Slice(OrderByTimestampDesc(UserTxDocs(docs, u)), n)

\* The object query_items returns is an iterator, and an iterator object is
\* true whether or not it will yield anything.
IteratorIsFalsy(items) == FALSE

\* (variant) the default account upserted whether or not one is stored
GetOrCreateAccount_AlwaysDefault(accts, u) ==
    [account  |-> CosmosDefaultAccount(u),
     accounts |-> [accts EXCEPT ![u] = CosmosDefaultAccount(u)]]

\* _get_or_create_account: the account read, or the default upserted
GetOrCreateAccount(accts, u) ==
    IF accts[u] # NoDoc
    THEN [account |-> accts[u], accounts |-> accts]
    ELSE [account  |-> CosmosDefaultAccount(u),
          accounts |-> [accts EXCEPT ![u] = CosmosDefaultAccount(u)]]

CosmosGetAccount(u) ==
    /\ backend = "cosmos"
    /\ LET got == GetOrCreateAccount(accounts, u)
       IN  /\ accounts' = got.accounts
           /\ last' = Call("get_account", u, [none |-> 0], "ok",
                           got.account, NoDoc, <<>>)
    /\ UNCHANGED <<backend, ttl_seconds, txdocs, file, clock, uuids>>

CosmosGetRecentTransactions(u, limit) ==
    /\ backend = "cosmos"
    /\ last' = Call("get_recent_transactions", u, [limit |-> limit], "ok",
                    NoDoc, NoDoc, QueryTop(txdocs, u, limit))
    /\ UNCHANGED <<backend, ttl_seconds, accounts, txdocs, file, clock, uuids>>

CosmosAddTransaction(u, amount, tx_type, description) ==
    /\ backend = "cosmos"
    /\ clock < MaxClock
    /\ LET got         == GetOrCreateAccount(accounts, u)
           account     == got.account
           old_balance == ToFloat(account.currentBalance)
           new_balance == NewBalance(old_balance, amount)
           now         == IsoFormat(clock + 1)
           base        == TxDoc("tx_", u, uuids + 1, now, amount, tx_type,
                                description, new_balance)
           tx_doc      == IF ttl_seconds = None THEN base
                          ELSE base @@ [ttl |-> ttl_seconds[1]]
           updated     == AccountAfterAdd(account, new_balance, now)
       IN  /\ txdocs' = txdocs \cup {tx_doc}
           /\ accounts' = [got.accounts EXCEPT ![u] = updated]
           /\ last' = Call("add_transaction", u,
                           [amount |-> amount, old_balance |-> old_balance],
                           "ok", updated, tx_doc, <<>>)
    /\ clock' = clock + 1
    /\ uuids' = uuids + 1
    /\ UNCHANGED <<backend, ttl_seconds, file>>

CosmosUpdateSettings(u, new_settings, replace) ==
    /\ backend = "cosmos"
    /\ clock < MaxClock
    /\ LET got      == GetOrCreateAccount(accounts, u)
           account  == got.account
           settings == IF replace = <<TRUE>> THEN new_settings
                       ELSE MergedSettings(account.settings, new_settings)
           now      == IsoFormat(clock + 1)
           updated  == AccountAfterSettings(account, settings, now)
       IN  /\ accounts' = [got.accounts EXCEPT ![u] = updated]
           /\ last' = Call("update_settings", u,
                           [new_settings |-> new_settings, replace |-> replace],
                           "ok", updated, NoDoc, <<>>)
    /\ clock' = clock + 1
    /\ UNCHANGED <<backend, ttl_seconds, txdocs, file, uuids>>

\* the account after delete_last_transaction's assignments
AccountAfterDelete(account, new_balance, now) ==
    [account EXCEPT !.currentBalance = new_balance,
                    !.lastUpdated    = now]

CosmosDeleteLastTransaction(u) ==
    /\ backend = "cosmos"
    /\ LET got          == GetOrCreateAccount(accounts, u)
           account      == got.account
           transactions == QueryTop(txdocs, u, 1)
       IN  IF IteratorIsFalsy(transactions)
           THEN \* if not transactions: return account, {}
                /\ accounts' = got.accounts
                /\ last' = Call("delete_last_transaction", u,
                                [none |-> 0], "ok",
                                account, EmptyDict, <<>>)
                /\ UNCHANGED <<txdocs, clock>>
           ELSE IF transactions = <<>>
           THEN \* transactions.next() on an exhausted iterator
                /\ accounts' = got.accounts
                /\ last' = Call("delete_last_transaction", u,
                                [none |-> 0], "StopIteration",
                                NoDoc, NoDoc, <<>>)
                /\ UNCHANGED <<txdocs, clock>>
           ELSE /\ clock < MaxClock
                /\ LET transaction == transactions[1]
                       old_balance == ToFloat(account.currentBalance)
                       new_balance == BalanceWithout(old_balance,
                                                     transaction.amount)
                       now         == IsoFormat(clock + 1)
                       updated     == AccountAfterDelete(account, new_balance, now)
                   IN  /\ accounts' = [got.accounts EXCEPT ![u] = updated]
                       /\ txdocs' = {t \in txdocs : t.id # transaction.id}
                       /\ last' = Call("delete_last_transaction", u,
                                       [none |-> 0], "ok",
                                       updated, transaction, <<>>)
                /\ clock' = clock + 1
    /\ UNCHANGED <<backend, ttl_seconds, file, uuids>>

\* ---------------------------------------------------------------- file
\* BaseJsonStore.save (json.dump of the whole document)
FileSave(data) == [exists |-> TRUE, data |-> data]

\* BaseJsonStore.load: the stored document, or, when the file is absent or
\* unparseable, _init_file: the default content, written by reset()
FileLoad(f) ==
    IF f.exists
    THEN [data |-> f.data, file |-> f]
    ELSE [data |-> FileDefaultContent, file |-> FileSave(FileDefaultContent)]

\* FileAllowanceRepository._ensure_user
EnsureUser(data, u) ==
    LET d1 == IF u \in DOMAIN data THEN data
              ELSE IF u \in DOMAIN FileDefaultContent
                   THEN data @@ (u :> FileDefaultContent[u])
                   ELSE data @@ (u :> FileDefaultUser)
    IN  IF d1[u].account.id = None
        THEN [d1 EXCEPT ![u].account.id = <<"account#", u>>]
        ELSE d1

\* sorted(transactions, key=ts, reverse=True): stable, so transactions with
\* equal timestamps keep the order they had in the list
RECURSIVE InsertByTimestampDesc(_, _)
InsertByTimestampDesc(sorted, tx) ==
    IF sorted = <<>> THEN <<tx>>
    ELSE IF StrLess(Head(sorted).timestamp, tx.timestamp)
         THEN <<tx>> \o sorted
         ELSE <<Head(sorted)>> \o InsertByTimestampDesc(Tail(sorted), tx)

RECURSIVE SortedByTimestampDesc(_)
SortedByTimestampDesc(transactions) ==
    IF transactions = <<>> THEN <<>>
    ELSE InsertByTimestampDesc(
            SortedByTimestampDesc(SubSeq(transactions, 1, Len(transactions) - 1)),
            transactions[Len(transactions)])

FileGetAccount(u) ==
    /\ backend = "file"
    /\ LET data == EnsureUser(FileLoad(file).data, u)
       IN  /\ file' = FileSave(data)
           /\ last' = Call("get_account", u, [none |-> 0], "ok",
                           data[u].account, NoDoc, <<>>)
    /\ UNCHANGED <<backend, ttl_seconds, accounts, txdocs, clock, uuids>>

FileGetRecentTransactions(u, limit) ==
    /\ backend = "file"
    /\ LET loaded == FileLoad(file)
           data   == EnsureUser(loaded.data, u)
           transactions_sorted == SortedByTimestampDesc(data[u].transactions)
       IN  /\ file' = loaded.file
           /\ last' = Call("get_recent_transactions", u, [limit |-> limit],
                           "ok", NoDoc, NoDoc, Slice(transactions_sorted, limit))
    /\ UNCHANGED <<backend, ttl_seconds, accounts, txdocs, clock, uuids>>

\* the account document stored for u in the file, or NoDoc
FileAccount(f, u) ==
    IF f.exists /\ u \in DOMAIN f.data THEN f.data[u].account ELSE NoDoc

FileAddTransaction(u, amount, tx_type, description) ==
    /\ backend = "file"
    /\ clock < MaxClock
    /\ LET data        == EnsureUser(FileLoad(file).data, u)
           account     == data[u].account
           old_balance == ToFloat(account.currentBalance)
           new_balance == NewBalance(old_balance, amount)
           now         == IsoFormat(clock + 1)
           tx_doc      == TxDoc("tx#", u, uuids + 1, now, amount, tx_type,
                                description, new_balance)
           updated     == AccountAfterAdd(account, new_balance, now)
           data2       == [data EXCEPT
                              ![u].transactions = Append(@, tx_doc),
                              ![u].account      = updated]
       IN  /\ file' = FileSave(data2)
           /\ last' = Call("add_transaction", u,
                           [amount |-> amount, old_balance |-> old_balance],
                           "ok", updated, tx_doc, <<>>)
    /\ clock' = clock + 1
    /\ uuids' = uuids + 1
    /\ UNCHANGED <<backend, ttl_seconds, accounts, txdocs>>

\* update_settings(self, user_id, new_settings) takes no `replace`: a call
\* that passes one is a TypeError before the body runs
FileUpdateSettings(u, new_settings, replace) ==
    /\ backend = "file"
    /\ IF replace # <<>>
       THEN /\ last' = Call("update_settings", u,
                            [new_settings |-> new_settings, replace |-> replace],
                            "TypeError", NoDoc, NoDoc, <<>>)
            /\ UNCHANGED <<file, clock>>
       ELSE /\ clock < MaxClock
            /\ LET data     == EnsureUser(FileLoad(file).data, u)
                   account  == data[u].account
                   settings == MergedSettings(account.settings, new_settings)
                   now      == IsoFormat(clock + 1)
                   updated  == AccountAfterSettings(account, settings, now)
               IN  /\ file' = FileSave([data EXCEPT ![u].account = updated])
                   /\ last' = Call("update_settings", u,
                                   [new_settings |-> new_settings,
                                    replace |-> replace],
                                   "ok", updated, NoDoc, <<>>)
            /\ clock' = clock + 1
    /\ UNCHANGED <<backend, ttl_seconds, accounts, txdocs, uuids>>

\* FileAllowanceRepository defines no delete_last_transaction: the call is
\* an AttributeError
FileDeleteLastTransaction(u) ==
    /\ backend = "file"
    /\ last' = Call("delete_last_transaction", u,
                    [none |-> 0], "AttributeError",
                    NoDoc, NoDoc, <<>>)
    /\ UNCHANGED <<backend, ttl_seconds, accounts, txdocs, file, clock, uuids>>

\* ---------------------------------------------------------------- operations
GetAccount(u) == CosmosGetAccount(u) \/ FileGetAccount(u)

GetRecentTransactions(u, limit) ==
    CosmosGetRecentTransactions(u, limit) \/ FileGetRecentTransactions(u, limit)

AddTransaction(u, amount, tx_type, description) ==
    \/ CosmosAddTransaction(u, amount, tx_type, description)
    \/ FileAddTransaction(u, amount, tx_type, description)

UpdateSettings(u, new_settings, replace) ==
    \/ CosmosUpdateSettings(u, new_settings, replace)
    \/ FileUpdateSettings(u, new_settings, replace)

DeleteLastTransaction(u) ==
    CosmosDeleteLastTransaction(u) \/ FileDeleteLastTransaction(u)

\* ---------------------------------------------------------------- JSON
\* A document is a dict with string keys, modelled as a function on its
\* keys.  json.dump(data, f, indent=2) writes one opening line, the members
\* one after the other, and one closing line; json.load reads them back.
\* The members are written in the order of KeyOrder.
KeyOrder == <<"Milou", "Luca", "Zoe", "milou", "luca", "general",
              "users", "generalTasks", "personalTasks", "messages">>

Open == [kind |-> "open"]
Close == [kind |-> "close"]
Member(k, v) == [kind |-> "member", key |-> k, value |-> v]

RECURSIVE Members(_, _)
Members(doc, i) ==
    IF i > Len(KeyOrder) THEN <<>>
    ELSE (IF KeyOrder[i] \in DOMAIN doc
          THEN <<Member(KeyOrder[i], doc[KeyOrder[i]])>> ELSE <<>>)
         \o Members(doc, i + 1)

\* (variant) a writer that leaves out the last member of the document
JsonDump_DropsLastMember(doc) ==
    LET ms == Members(doc, 1)
    IN  <<Open>> \o (IF ms = <<>> THEN ms ELSE SubSeq(ms, 1, Len(ms) - 1))
                 \o <<Close>>

\* json.dump: the text of a document
JsonDump(doc) == <<Open>> \o Members(doc, 1) \o <<Close>>

\* json.load succeeds: the text is one complete object
Parseable(text) ==
    /\ Len(text) >= 2
    /\ text[1] = Open
    /\ text[Len(text)] = Close
    /\ \A i \in 2..(Len(text) - 1) : text[i].kind = "member"

\* json.load: the document of a parseable text (of a repeated key the last
\* member counts)
JsonLoad(text) ==
    LET idx  == 2..(Len(text) - 1)
        keys == {text[i].key : i \in idx}
        at(k) == CHOOSE i \in idx :
                    text[i].key = k /\ \A j \in idx : text[j].key = k => j <= i
    IN  [k \in keys |-> text[at(k)].value]

\* ---------------------------------------------------------------- stores
\* the empty dict {}
EmptyDoc == [k \in {} |-> None]

\* one chore of a choreList
Chore(name, date) == [name |-> name, date |-> date]

\* a user's entry of the State document; `config` is None when the key is
\* absent
UserState(config, choreList) == [config |-> config, choreList |-> choreList]

\* FileConfigStore.get_default_content
ConfigDefaultContent ==
    [ users         |-> EmptyDoc,
      generalTasks  |-> <<>>,
      personalTasks |-> <<>>,
      messages      |-> <<>> ]

\* FileStateStore.get_default_content (3.0, 0.2, 1.0 and 0.1 in tenths)
StateDefaultContent ==
    [ u \in {"Milou", "Luca"} |->
        IF u = "Milou"
        THEN UserState(<<[tasksPerWeek |-> 9, allowance |-> 30, reward |-> 2]>>,
                       << Chore("Take out trash", "2025-12-10"),
                          Chore("Wash dishes", "2025-12-11") >>)
        ELSE UserState(<<[tasksPerWeek |-> 6, allowance |-> 10, reward |-> 1]>>,
                       << Chore("Clean room", "2025-12-10"),
                          Chore("Do homework", "2025-12-11") >>) ]

\* the `state` literal of CosmosStateStore.reset
CosmosStateDefault ==
    [ u \in {"Milou", "Luca"} |-> UserState(None, <<>>) ]

\* a file that does not exist
NoTextFile == [exists |-> FALSE, text |-> <<>>]

\* what can go wrong in `with open(file, 'w') as f: json.dump(data, f)`:
\* open fails and the file is untouched, or the write stops after some of
\* the text (open has truncated the file by then)
FileFaults(data) ==
    {[kind |-> "none", written |-> 0], [kind |-> "open", written |-> 0]}
    \cup {[kind |-> "write", written |-> n] : n \in 0..(Len(JsonDump(data)) - 1)}

\* BaseJsonStore.save: the file afterwards, the bool returned and the
\* messages logged
JsonStoreSave(f, data, fault) ==
    IF fault.kind = "open"
    THEN [file |-> f, ok |-> FALSE, log |-> <<"save_error">>]
    ELSE IF fault.kind = "write"
    THEN [file |-> [exists |-> TRUE,
                    text   |-> SubSeq(JsonDump(data), 1, fault.written)],
          ok |-> FALSE, log |-> <<"save_error">>]
    ELSE [file |-> [exists |-> TRUE, text |-> JsonDump(data)],
          ok |-> TRUE, log |-> <<"saved">>]

\* BaseJsonStore.reset: save(get_default_content()), and its bool
JsonStoreReset(f, default, fault) == JsonStoreSave(f, default, fault)

\* (variant) an _init_file that writes the defaults and returns {}
JsonStoreInitFile_ReturnsEmpty(f, default, fault) ==
    LET r == JsonStoreReset(f, default, fault)
    IN  [file |-> r.file, data |-> [k \in {} |-> None],
         log  |-> r.log \o (IF r.ok THEN <<"initialized">> ELSE <<"init_failed">>)]

\* BaseJsonStore._init_file: reset(), then the default content whatever
\* reset returned
JsonStoreInitFile(f, default, fault) ==
    LET r == JsonStoreReset(f, default, fault)
    IN  [file |-> r.file, data |-> default,
         log  |-> r.log \o (IF r.ok THEN <<"initialized">> ELSE <<"init_failed">>)]

\* (variant) a load that rewrites the file from the current defaults' keys
JsonStoreLoad_Migrates(f, default, fault) ==
    IF f.exists /\ Parseable(f.text)
    THEN LET d == [k \in DOMAIN default |->
                      IF k \in DOMAIN JsonLoad(f.text)
                      THEN JsonLoad(f.text)[k] ELSE default[k]]
         IN  [file |-> [exists |-> TRUE, text |-> JsonDump(d)], data |-> d,
              log |-> <<"loaded">>]
    ELSE LET r == JsonStoreInitFile(f, default, fault)
         IN  [r EXCEPT !.log = <<"load_error">> \o @]

\* BaseJsonStore.load: the parsed file; FileNotFoundError and
\* JSONDecodeError lead to _init_file
JsonStoreLoad(f, default, fault) ==
    IF f.exists /\ Parseable(f.text)
    THEN [file |-> f, data |-> JsonLoad(f.text), log |-> <<"loaded">>]
    ELSE LET r == JsonStoreInitFile(f, default, fault)
         IN  [r EXCEPT !.log = <<"load_error">> \o @]

\* upsert_item / read_item either work or raise
CosmosFaults == {[kind |-> "none", written |-> 0], [kind |-> "error", written |-> 0]}

\* CosmosStateStore.save: the item afterwards and the bool returned; the
\* body travels as JSON
CosmosStoreSave(item, data, fault) ==
    IF fault.kind = "none"
    THEN [item |-> [entityType |-> "state", id |-> "state", userId |-> "household2",
                    data |-> JsonLoad(JsonDump(data))],
          ok |-> TRUE, log |-> <<"saved">>]
    ELSE [item |-> item, ok |-> FALSE, log |-> <<"save_error">>]

\* CosmosStateStore.reset: saves the literal and returns it, whatever save
\* returned
CosmosStoreReset(item, fault) ==
    LET r == CosmosStoreSave(item, CosmosStateDefault, fault)
    IN  [item |-> r.item, data |-> CosmosStateDefault, log |-> r.log \o <<"reset">>]

\* CosmosStateStore.load: `read` is the fault of read_item, `fault` that of
\* the upsert of a reset
CosmosStoreLoad(item, read, fault) ==
    IF read.kind # "none"
    THEN [item |-> item, data |-> EmptyDoc, log |-> <<"load_error">>]
    ELSE IF item = NoDoc
    THEN LET r == CosmosStoreReset(item, fault)
         IN  [r EXCEPT !.log = <<"not_found">> \o @]
    ELSE [item |-> item, data |-> item.data, log |-> <<"loaded">>]

\* the documents callers save
StateInputs ==
    { [u \in {"Milou", "Luca"} |->
          IF u = "Milou"
          THEN UserState(None, << Chore("Wash dishes", "2025-12-11"),
                                  Chore("Clean room", "2025-12-12"),
                                  Chore("Take out trash", "2025-12-13") >>)
          ELSE UserState(None, <<>>)],
      [u \in {"Zoe"} |-> UserState(None, <<Chore("Do homework", "2025-12-11")>>)] }

ConfigInputs ==
    { [ users         |-> [u \in {"Zoe"} |-> [name |-> "Zoe", tasksPerWeek |-> 7]],
        generalTasks  |-> <<"Take out trash">>,
        personalTasks |-> <<"Clean room", "Do homework", "Wash dishes">>,
        messages      |-> <<>> ] }

NoFault == [kind |-> "none", written |-> 0]

\* the faults of the state store's write and read
StateWriteFaults(data) ==
    IF state_backend = "file" THEN FileFaults(data) ELSE CosmosFaults
StateReadFaults ==
    IF state_backend = "file" THEN {NoFault} ELSE CosmosFaults

\* state_store.load(): the backing resource afterwards and the dict returned
StateStoreLoad(read, fault) ==
    IF state_backend = "file"
    THEN LET r == JsonStoreLoad(state_file, StateDefaultContent, fault)
         IN  [file |-> r.file, item |-> state_item, data |-> r.data, log |-> r.log]
    ELSE LET r == CosmosStoreLoad(state_item, read, fault)
         IN  [file |-> state_file, item |-> r.item, data |-> r.data, log |-> r.log]

\* state_store.save(data): the backing resource afterwards and the bool
StateStoreSave(data, fault) ==
    IF state_backend = "file"
    THEN LET r == JsonStoreSave(state_file, data, fault)
         IN  [file |-> r.file, item |-> state_item, ok |-> r.ok, log |-> r.log]
    ELSE LET r == CosmosStoreSave(state_item, data, fault)
         IN  [file |-> state_file, item |-> r.item, ok |-> r.ok, log |-> r.log]

\* state_store.reset(): FileStateStore returns the bool of save,
\* CosmosStateStore the dict it saved
StateStoreReset(fault) ==
    IF state_backend = "file"
    THEN LET r == JsonStoreReset(state_file, StateDefaultContent, fault)
         IN  [file |-> r.file, item |-> state_item,
              returned |-> "bool", ok |-> r.ok, data |-> EmptyDoc, log |-> r.log]
    ELSE LET r == CosmosStoreReset(state_item, fault)
         IN  [file |-> state_file, item |-> r.item,
              returned |-> "dict", ok |-> FALSE, data |-> r.data, log |-> r.log]

\* the record of a store call: what was passed, the value returned, a dict
\* (`data`) or a bool (`ok`), and the messages it logged
StoreCall(op, store, arg, returned, data, ok, log) ==
    [ op |-> op, store |-> store, arg |-> arg,
      returned |-> returned, data |-> data, ok |-> ok, log |-> log ]

LoadState ==
    /\ \E read \in StateReadFaults, fault \in StateWriteFaults(StateDefaultContent) :
          LET r == StateStoreLoad(read, fault)
          IN  /\ state_file' = r.file
              /\ state_item' = r.item
              /\ store_last' = StoreCall("load", "state", EmptyDoc, "dict", r.data, FALSE, r.log)
    /\ UNCHANGED <<state_backend, config_file, ledgerVars, factoryVars, handlerVars, apiVars>>

SaveState(data) ==
    /\ \E fault \in StateWriteFaults(data) :
          LET r == StateStoreSave(data, fault)
          IN  /\ state_file' = r.file
              /\ state_item' = r.item
              /\ store_last' = StoreCall("save", "state", data, "bool", EmptyDoc, r.ok, r.log)
    /\ UNCHANGED <<state_backend, config_file, ledgerVars, factoryVars, handlerVars, apiVars>>

ResetState ==
    /\ \E fault \in StateWriteFaults(StateDefaultContent) :
          LET r == StateStoreReset(fault)
          IN  /\ state_file' = r.file
              /\ state_item' = r.item
              /\ store_last' = StoreCall("reset", "state", EmptyDoc, r.returned, r.data, r.ok, r.log)
    /\ UNCHANGED <<state_backend, config_file, ledgerVars, factoryVars, handlerVars, apiVars>>

\* config_store = FileConfigStore(): the same three operations on
\* task_config.json
LoadConfig ==
    /\ \E fault \in FileFaults(ConfigDefaultContent) :
          LET r == JsonStoreLoad(config_file, ConfigDefaultContent, fault)
          IN  /\ config_file' = r.file
              /\ store_last' = StoreCall("load", "config", EmptyDoc, "dict", r.data, FALSE, r.log)
    /\ UNCHANGED <<state_backend, state_file, state_item, ledgerVars, factoryVars,
                   handlerVars, apiVars>>

SaveConfig(data) ==
    /\ \E fault \in FileFaults(data) :
          LET r == JsonStoreSave(config_file, data, fault)
          IN  /\ config_file' = r.file
              /\ store_last' = StoreCall("save", "config", data, "bool", EmptyDoc, r.ok, r.log)
    /\ UNCHANGED <<state_backend, state_file, state_item, ledgerVars, factoryVars,
                   handlerVars, apiVars>>

ResetConfig ==
    /\ \E fault \in FileFaults(ConfigDefaultContent) :
          LET r == JsonStoreReset(config_file, ConfigDefaultContent, fault)
          IN  /\ config_file' = r.file
              /\ store_last' = StoreCall("reset", "config", EmptyDoc, "bool", EmptyDoc, r.ok, r.log)
    /\ UNCHANGED <<state_backend, state_file, state_item, ledgerVars, factoryVars,
                   handlerVars, apiVars>>

\* the stores before their first call
StoreIdle ==
    /\ state_file = NoTextFile
    /\ state_item = NoDoc
    /\ config_file = NoTextFile
    /\ store_last = StoreCall("init", "state", EmptyDoc, "bool", EmptyDoc, FALSE, <<>>)

\* ---------------------------------------------------------------- factories
\* The environment of a factory call: the value of USE_COSMOS_DB, how the
\* initialisation of the remote backend ends, whether jsonfile_manager can
\* be imported, and whether the interpreter runs with assert statements
\* removed (python -O).
UseCosmosValues == {"unset", "true", "True", "false", "1"}
CosmosInitOutcomes == {"ok", "ImportError", "ValueError", "CosmosHttpResponseError"}
FileImportOutcomes == {"ok", "ImportError"}

Envs ==
    [ use_cosmos  : UseCosmosValues,
      cosmos_init : CosmosInitOutcomes,
      file_import : FileImportOutcomes,
      optimize    : BOOLEAN ]

\* os.getenv('USE_COSMOS_DB', 'false').lower() == 'true'
UseCosmos(e) == e.use_cosmos \in {"true", "True"}

\* the members of the two protocols
StateStoreProtocol == {"load", "save", "reset"}
AllowanceRepositoryProtocol ==
    { "get_account", "get_recent_transactions", "add_transaction",
      "update_settings", "delete_last_transaction" }

\* the methods of the four classes
CosmosStateStoreMethods == {"load", "save", "reset"}
FileStateStoreMethods ==
    {"get_default_content", "load", "_init_file", "save", "reset"}
CosmosAllowanceRepositoryMethods ==
    { "_default_account", "_get_or_create_account",
      "get_account", "get_recent_transactions", "add_transaction",
      "update_settings", "delete_last_transaction" }
FileAllowanceRepositoryMethods ==
    { "_ensure_user", "get_account", "get_recent_transactions",
      "add_transaction", "update_settings" }

\* isinstance(obj, P) for a runtime_checkable protocol P: obj has every
\* member of P
IsInstance(methods, protocol) == protocol \subseteq methods

Returned_(factory, kind, methods) ==
    [ factory |-> factory, outcome |-> "returned", kind |-> kind,
      error |-> "none", methods |-> methods ]
Raised_(factory, error) ==
    [ factory |-> factory, outcome |-> "raised", kind |-> "none",
      error |-> error, methods |-> {} ]

\* `assert cond`: nothing when asserts are removed, else AssertionError
\* unless cond
AssertFails(e, cond) == ~e.optimize /\ ~cond

\* the file branch of a factory: import, assert isinstance, return; only
\* ImportError is caught (and raised again as ImportError)
FileBranch(e, factory, methods, protocol) ==
    IF e.file_import # "ok" THEN Raised_(factory, "ImportError")
    ELSE IF AssertFails(e, IsInstance(methods, protocol))
    THEN Raised_(factory, "AssertionError")
    ELSE Returned_(factory, "file", methods)

\* the remote branch of a factory: whatever is raised, ImportError or any
\* other Exception (an AssertionError too), falls through to the file branch
RemoteBranchReturns(e, methods, protocol) ==
    /\ UseCosmos(e)
    /\ e.cosmos_init = "ok"
    /\ ~AssertFails(e, IsInstance(methods, protocol))

\* create_state_store
CreateStateStoreResult(e) ==
    IF RemoteBranchReturns(e, CosmosStateStoreMethods, StateStoreProtocol)
    THEN Returned_("create_state_store", "cosmos", CosmosStateStoreMethods)
    ELSE FileBranch(e, "create_state_store", FileStateStoreMethods, StateStoreProtocol)

\* create_allowance_repository
CreateAllowanceRepositoryResult(e) ==
    IF RemoteBranchReturns(e, CosmosAllowanceRepositoryMethods,
                           AllowanceRepositoryProtocol)
    THEN Returned_("create_allowance_repository", "cosmos",
                   CosmosAllowanceRepositoryMethods)
    ELSE FileBranch(e, "create_allowance_repository",
                    FileAllowanceRepositoryMethods, AllowanceRepositoryProtocol)

\* ---------------------------------------------------------------- idle parts
\* the parts of the system a specification does not exercise stay as they
\* are after construction
NoEnv == [none |-> 0]
NoCreated == [none |-> 0]
NoRequest == [handler |-> "none"]
NoResponse == [status |-> 0]

FactoryIdle == env = NoEnv /\ created = NoCreated
NoHandlers == << >>
HandlersIdle == handlers = NoHandlers
ApiIdle ==
    /\ request = NoRequest
    /\ response = NoResponse
    /\ caught = [type |-> "none", text |-> ""]
OthersIdle ==
    state_backend = "file" /\ StoreIdle /\ FactoryIdle /\ ApiIdle /\ HandlersIdle

\* ---------------------------------------------------------------- system
\* create_allowance_repository(user_id="Milou"): the Cosmos factory touches
\* the account of its user_id; the file factory opens nothing.
InitCosmos(ttl) ==
    /\ backend = "cosmos"
    /\ ttl_seconds = ttl
    /\ accounts = GetOrCreateAccount([u \in UserIds |-> NoDoc], "Milou").accounts
    /\ txdocs = {}
    /\ file = NoFile

InitFile ==
    /\ backend = "file"
    /\ ttl_seconds = None
    /\ accounts = [u \in UserIds |-> NoDoc]
    /\ txdocs = {}
    /\ file = NoFile

Init ==
    /\ InitCosmos(None) \/ InitFile
    /\ clock = 0
    /\ uuids = 0
    /\ last = Call("init", "Milou", [none |-> 0], "ok", NoDoc, NoDoc, <<>>)
    /\ OthersIdle

\* a repository call leaves the stores, the factories and the API alone
OthersUnchanged == UNCHANGED <<storeVars, factoryVars, handlerVars, apiVars>>

Next ==
    \/ \E u \in UserIds : GetAccount(u) /\ OthersUnchanged
    \/ \E u \in UserIds, limit \in Limits :
            GetRecentTransactions(u, limit) /\ OthersUnchanged
    \/ \E u \in UserIds, amount \in Amounts, tx_type \in TxTypes,
          description \in Descriptions :
            AddTransaction(u, amount, tx_type, description) /\ OthersUnchanged
    \/ \E u \in UserIds, new_settings \in SettingsInputs, replace \in ReplaceArgs :
            UpdateSettings(u, new_settings, replace) /\ OthersUnchanged
    \/ \E u \in UserIds : DeleteLastTransaction(u) /\ OthersUnchanged

Spec == Init /\ [][Next]_vars

\* ---------------------------------------------------------------- retention
\* create_cosmos_allowance_repository with ALLOWANCE_TX_TTL_DAYS set: every
\* transaction document carries a ttl, and the container drops a document
\* once it is older than its ttl.  The age of a document is measured at the
\* clock readings of the calls.
TimeOf(tx) == CHOOSE k \in 0..(MaxClock + 1) : IsoFormat(k) = tx.timestamp

Expire ==
    /\ \E t \in txdocs :
          /\ "ttl" \in DOMAIN t
          /\ clock >= TimeOf(t) + t.ttl
          /\ txdocs' = txdocs \ {t}
    /\ UNCHANGED <<backend, ttl_seconds, accounts, file, clock, uuids, last>>
    /\ OthersUnchanged

InitTTL ==
    /\ InitCosmos(<<TtlTicks>>) \/ InitFile
    /\ clock = 0
    /\ uuids = 0
    /\ last = Call("init", "Milou", [none |-> 0], "ok", NoDoc, NoDoc, <<>>)
    /\ OthersIdle

NextTTL == Next \/ Expire

SpecTTL == InitTTL /\ [][NextTTL]_vars

\* ---------------------------------------------------------------- store system
\* the state store and the config store on their own: the ledger is not
\* touched
LedgerIdle ==
    /\ InitFile
    /\ clock = 0
    /\ uuids = 0
    /\ last = Call("init", "Milou", [none |-> 0], "ok", NoDoc, NoDoc, <<>>)

InitStore ==
    /\ state_backend \in {"file", "cosmos"}
    /\ StoreIdle
    /\ LedgerIdle
    /\ FactoryIdle
    /\ HandlersIdle
    /\ ApiIdle

NextStore ==
    \/ LoadState
    \/ \E data \in StateInputs : SaveState(data)
    \/ ResetState
    \/ LoadConfig
    \/ \E data \in ConfigInputs : SaveConfig(data)
    \/ ResetConfig

SpecStore == InitStore /\ [][NextStore]_vars

\* ---------------------------------------------------------------- factory system
\* the two factory calls of app.py, in every environment
CreateStateStore ==
    /\ created' = CreateStateStoreResult(env)
    /\ UNCHANGED <<env, ledgerVars, storeVars, apiVars, handlerVars>>

CreateAllowanceRepository ==
    /\ created' = CreateAllowanceRepositoryResult(env)
    /\ UNCHANGED <<env, ledgerVars, storeVars, apiVars, handlerVars>>

InitFactory ==
    /\ env \in Envs
    /\ created = NoCreated
    /\ state_backend = "file"
    /\ StoreIdle
    /\ LedgerIdle
    /\ ApiIdle
    /\ HandlersIdle

NextFactory == CreateStateStore \/ CreateAllowanceRepository

SpecFactory == InitFactory /\ [][NextFactory]_vars

\* ---------------------------------------------------------------- views
AllUsers == UserIds \cup DOMAIN FileDefaultContent

\* the account document stored for u, or NoDoc
StoredAccount(u) ==
    IF backend = "cosmos"
    THEN (IF u \in DOMAIN accounts THEN accounts[u] ELSE NoDoc)
    ELSE FileAccount(file, u)

\* the transaction documents stored for u
StoredTxs(u) ==
    IF backend = "cosmos" THEN UserTxDocs(txdocs, u)
    ELSE IF file.exists /\ u \in DOMAIN file.data
         THEN {file.data[u].transactions[i] :
                  i \in 1..Len(file.data[u].transactions)}
         ELSE {}

AllStoredTxs == UNION {StoredTxs(u) : u \in AllUsers}

\* what get_account reports for u: the stored value, or the lazily created
\* default's
Balance(u) ==
    IF StoredAccount(u) = NoDoc THEN ToFloat(0) ELSE StoredAccount(u).currentBalance
Version(u) ==
    IF StoredAccount(u) = NoDoc THEN 1 ELSE StoredAccount(u).version

\* a step that is a call of op for u
Called(op, u) == last' # last /\ last'.op = op /\ last'.user = u
Returned(op, u) == Called(op, u) /\ last'.outcome = "ok"

\* ---------------------------------------------------------------- API inputs
\* a value of a JSON request body: a number, a bool (True and False are the
\* ints 1 and 0 in Python), a string or null
JsonValue(kind, value, text) == [kind |-> kind, value |-> value, text |-> text]
JsonNumber(n) == JsonValue("number", n, "")
JsonBool(b) == JsonValue("bool", IF b THEN 1 ELSE 0, "")
JsonString(s) == JsonValue("string", 0, s)

\* isinstance(x, (int, float)): bool is a subclass of int
IsIntOrFloat(x) == x.kind \in {"number", "bool"}

\* the bodies posted to /transactions: each key is absent (None) or present
Payloads ==
    { [amount |-> <<JsonNumber(10)>>, type |-> None],
      [amount |-> None, type |-> None],
      [amount |-> <<JsonString("10")>>, type |-> None],
      [amount |-> <<JsonBool(TRUE)>>, type |-> None],
      [amount |-> <<JsonNumber(10)>>, type |-> <<JsonString("GIFT")>>] }

\* the `limit` query parameter: absent (None) or a string of characters
\* ("1", "0", "-1", "x")
LimitArgs == {None, <<<<49>>>>, <<<<48>>>>, <<<<45, 49>>>>, <<<<120>>>>}

\* the <user_id> of the allowance routes
PathUsers == {"Zoe"}

\* the bodies posted to /api/state
StateBodies == StateInputs \cup {EmptyDoc}

\* what a failing backend raises: the texts differ from failure to failure
BackendExceptions ==
    { [type |-> "CosmosHttpResponseError", text |-> "Request rate is large"],
      [type |-> "CosmosHttpResponseError", text |-> "Unauthorized for key"] }

NoException == [type |-> "none", text |-> ""]

\* int(s) for a string: an optional sign and decimal digits, else ValueError
IsDigits(s) == s # <<>> /\ \A i \in DOMAIN s : s[i] \in 48..57

RECURSIVE DigitsValue(_)
DigitsValue(s) ==
    IF s = <<>> THEN 0
    ELSE 10 * DigitsValue(SubSeq(s, 1, Len(s) - 1)) + (s[Len(s)] - 48)

ParseInt(s) ==
    LET signed == s # <<>> /\ s[1] \in {43, 45}
        body   == IF signed THEN Tail(s) ELSE s
    IN  IF IsDigits(body)
        THEN [ok |-> TRUE,
              value |-> IF signed /\ s[1] = 45
                        THEN 0 - DigitsValue(body) ELSE DigitsValue(body)]
        ELSE [ok |-> FALSE, value |-> 0]

\* ---------------------------------------------------------------- API
Request(handler, u, arg) == [handler |-> handler, user |-> u, arg |-> arg]

\* jsonify({"success": ..., "error": ...}), status
Response(status, success, error) ==
    [status |-> status, success |-> success, error |-> error]

\* a repository call that raises a backend exception before it has written
RepoRaises(op, u, e) ==
    /\ last' = Call(op, u, [text |-> e.text], e.type, NoDoc, NoDoc, <<>>)
    /\ UNCHANGED <<backend, ttl_seconds, accounts, txdocs, file, clock, uuids>>

\* the exception a repository call ended with, as the handler catches it
CaughtOf(call) ==
    IF call.outcome = "ok" THEN NoException
    ELSE [type |-> call.outcome,
          text |-> IF "text" \in DOMAIN call.args THEN call.args.text ELSE ""]

\* the handler's answer to a repository call: 200, or the 500 of its
\* `except Exception` with the handler's own message
Answer(message) ==
    /\ caught' = CaughtOf(last')
    /\ response' = IF last'.outcome = "ok" THEN Response(200, TRUE, "")
                   ELSE Response(500, FALSE, message)

\* a request refused before the repository is reached
Refuse(status, message) ==
    /\ response' = Response(status, FALSE, message)
    /\ caught' = NoException
    /\ UNCHANGED ledgerVars

\* GET /api/allowance/<user_id>/account
GetAllowanceAccount(u) ==
    /\ request' = Request("get_allowance_account", u, None)
    /\ \/ GetAccount(u)
       \/ \E e \in BackendExceptions : RepoRaises("get_account", u, e)
    /\ Answer("A system error occured")
    /\ UNCHANGED <<storeVars, factoryVars, handlerVars>>

\* GET /api/allowance/<user_id>/transactions?limit=...
GetAllowanceTransactions(u, arg) ==
    /\ request' = Request("get_allowance_transactions", u, arg)
    /\ LET limit == IF arg = None THEN [ok |-> TRUE, value |-> 20]
                    ELSE ParseInt(arg[1])
       IN  IF ~limit.ok \/ limit.value <= 0
           THEN Refuse(400, "Invalid 'limit' query parameter")
           ELSE /\ \/ GetRecentTransactions(u, limit.value)
                   \/ \E e \in BackendExceptions :
                         RepoRaises("get_recent_transactions", u, e)
                /\ Answer("Unknown system error in getting recent transactions")
    /\ UNCHANGED <<storeVars, factoryVars, handlerVars>>

\* POST /api/allowance/<user_id>/transactions
CreateAllowanceTransaction(u, payload) ==
    /\ request' = Request("create_allowance_transaction", u, payload)
    /\ LET type == IF payload.type = None THEN JsonString("MANUAL")
                   ELSE payload.type[1]
       IN  IF payload.amount = None
           THEN Refuse(400, "Missing required field 'amount'")
           ELSE IF ~(type.kind = "string"
                       /\ type.text \in {"ALLOWANCE", "BONUS", "MANUAL"})
           THEN Refuse(400, "Invalid transaction type")
           ELSE IF ~IsIntOrFloat(payload.amount[1])
           THEN Refuse(400, "'amount' must be a number")
           ELSE /\ \/ AddTransaction(u, payload.amount[1].value, type.text, None)
                   \/ \E e \in BackendExceptions :
                         RepoRaises("add_transaction", u, e)
                /\ Answer("Unknown system error in creating transaction")
    /\ UNCHANGED <<storeVars, factoryVars, handlerVars>>

\* DELETE /api/allowance/<user_id>/transactions/last
DeleteLastAllowanceTransaction(u) ==
    /\ request' = Request("delete_last_allowance_transaction", u, None)
    /\ \/ DeleteLastTransaction(u)
       \/ \E e \in BackendExceptions : RepoRaises("delete_last_transaction", u, e)
    /\ caught' = CaughtOf(last')
    /\ response' =
          IF last'.outcome # "ok"
          THEN Response(500, FALSE, "Unknown system error in deleting last transaction")
          ELSE IF last'.tx = EmptyDict
          THEN Response(400, FALSE, "No transactions to delete")
          ELSE Response(200, TRUE, "")
    /\ UNCHANGED <<storeVars, factoryVars, handlerVars>>

\* PATCH /api/allowance/<user_id>/settings: a stub that calls nothing
UpdateAllowanceSettings(u, new_settings) ==
    /\ request' = Request("update_allowance_settings", u, new_settings)
    /\ IF DOMAIN new_settings = {}
       THEN Refuse(400, "No settings provided")
       ELSE Refuse(501, "Not implemented yet: PATCH /api/allowance/<user_id>/settings")
    /\ UNCHANGED <<storeVars, factoryVars, handlerVars>>

\* the keys of a document in dict order
KeysOf(doc) == SelectSeq(KeyOrder, LAMBDA k : k \in DOMAIN doc)

\* repo.get_account(u) on given containers: the containers afterwards and
\* the account returned
GetAccountIn(accts, f, u) ==
    IF backend = "cosmos"
    THEN LET got == GetOrCreateAccount(accts, u)
         IN  [accounts |-> got.accounts, file |-> f, account |-> got.account]
    ELSE LET data == EnsureUser(FileLoad(f).data, u)
         IN  [accounts |-> accts, file |-> FileSave(data),
              account |-> data[u].account]

\* repo.get_account for the first n of the users, one after the other
RECURSIVE GetAccountsIn(_, _, _, _)
GetAccountsIn(accts, f, users, n) ==
    IF n = 0 THEN [accounts |-> accts, file |-> f, account |-> NoDoc]
    ELSE LET before == GetAccountsIn(accts, f, users, n - 1)
         IN  GetAccountIn(before.accounts, before.file, users[n])

\* the body of get_state after state_store.load(): get_account for every
\* user of the state; `failing` is the position of the call that raises e
\* (0: none does)
GetStateAccounts(state, failing, e) ==
    LET users == KeysOf(state)
        n     == IF failing = 0 THEN Len(users) ELSE failing - 1
        got   == GetAccountsIn(accounts, file, users, n)
    IN  /\ accounts' = got.accounts
        /\ file' = got.file
        /\ last' = IF failing # 0
                   THEN Call("get_account", users[failing], [text |-> e.text],
                             e.type, NoDoc, NoDoc, <<>>)
                   ELSE IF n = 0 THEN last
                   ELSE Call("get_account", users[n], [none |-> 0], "ok",
                             got.account, NoDoc, <<>>)
        /\ caught' = e
        /\ UNCHANGED <<backend, ttl_seconds, txdocs, clock, uuids>>

\* how get_state's walk over the state ends: no get_account raises
\* (position 0), or the one at some position raises a backend exception
Failures(state) ==
    {[position |-> 0, e |-> NoException]}
    \cup [position : 1..Len(KeysOf(state)), e : BackendExceptions]

\* GET /api/state: on an exception the handler answers with str(e)
ApiGetState ==
    /\ request' = Request("get_state", "household2", None)
    /\ \E read \in StateReadFaults, fault \in StateWriteFaults(StateDefaultContent) :
          LET loaded == StateStoreLoad(read, fault)
          IN  /\ state_file' = loaded.file
              /\ state_item' = loaded.item
              /\ store_last' = StoreCall("load", "state", EmptyDoc, "dict",
                                         loaded.data, FALSE, loaded.log)
              /\ \E f \in Failures(loaded.data) :
                    /\ GetStateAccounts(loaded.data, f.position, f.e)
                    /\ response' = IF f.position = 0 THEN Response(200, TRUE, "")
                                   ELSE Response(500, FALSE, f.e.text)
    /\ UNCHANGED <<state_backend, config_file, factoryVars, handlerVars>>

\* POST /api/state
ApiUpdateState(new_state) ==
    /\ request' = Request("update_state", "household2", new_state)
    /\ caught' = NoException
    /\ IF DOMAIN new_state = {}
       THEN /\ response' = Response(400, FALSE, "No data provided")
            /\ UNCHANGED <<state_file, state_item, store_last>>
       ELSE IF ~({"Milou", "Luca"} \subseteq DOMAIN new_state)
       THEN /\ response' = Response(400, FALSE, "Missing required keys")
            /\ UNCHANGED <<state_file, state_item, store_last>>
       ELSE \E fault \in StateWriteFaults(new_state) :
               LET saved == StateStoreSave(new_state, fault)
               IN  /\ state_file' = saved.file
                   /\ state_item' = saved.item
                   /\ store_last' = StoreCall("save", "state", new_state, "bool",
                                              EmptyDoc, saved.ok, saved.log)
                   /\ response' = IF saved.ok THEN Response(200, TRUE, "")
                                  ELSE Response(500, FALSE, "Failed to save state")
    /\ UNCHANGED <<state_backend, config_file, ledgerVars, factoryVars, handlerVars>>

\* str(e) of the AttributeError of `get_state().json` when get_state has
\* returned its (response, 500) tuple
TupleHasNoJson == "'tuple' object has no attribute 'json'"

\* POST /api/reset: state_store.reset(), then the data of get_state()
ApiResetState ==
    /\ request' = Request("reset_state", "household2", None)
    /\ \E wfault \in StateWriteFaults(StateDefaultContent),
          read \in StateReadFaults,
          fault \in StateWriteFaults(StateDefaultContent) :
          LET was    == StateStoreReset(wfault)
              loaded == IF state_backend = "file"
                        THEN LET r == JsonStoreLoad(was.file, StateDefaultContent, fault)
                             IN  [file |-> r.file, item |-> was.item,
                                  data |-> r.data, log |-> r.log]
                        ELSE LET r == CosmosStoreLoad(was.item, read, fault)
                             IN  [file |-> was.file, item |-> r.item,
                                  data |-> r.data, log |-> r.log]
          IN  /\ state_file' = loaded.file
              /\ state_item' = loaded.item
              /\ store_last' = StoreCall("load", "state", EmptyDoc, "dict",
                                         loaded.data, FALSE, loaded.log)
              /\ \E f \in Failures(loaded.data) :
                    /\ GetStateAccounts(loaded.data, f.position, f.e)
                    /\ response' = IF f.position = 0 THEN Response(200, TRUE, "")
                                   ELSE Response(500, FALSE, TupleHasNoJson)
    /\ UNCHANGED <<state_backend, config_file, factoryVars, handlerVars>>

\* ---------------------------------------------------------------- API system
\* app.py after its two factory calls: both objects remote, or both file
InitApi ==
    /\ \/ /\ backend = "cosmos"
          /\ state_backend = "cosmos"
          /\ accounts = GetOrCreateAccount([u \in AllUsers |-> NoDoc], "Milou").accounts
       \/ /\ backend = "file"
          /\ state_backend = "file"
          /\ accounts = [u \in AllUsers |-> NoDoc]
    /\ ttl_seconds = None
    /\ txdocs = {}
    /\ file = NoFile
    /\ clock = 0
    /\ uuids = 0
    /\ last = Call("init", "Milou", [none |-> 0], "ok", NoDoc, NoDoc, <<>>)
    /\ StoreIdle
    /\ FactoryIdle
    /\ HandlersIdle
    /\ ApiIdle

\* the allowance routes
NextApi ==
    \/ \E u \in PathUsers : GetAllowanceAccount(u)
    \/ \E u \in PathUsers, arg \in LimitArgs : GetAllowanceTransactions(u, arg)
    \/ \E u \in PathUsers, payload \in Payloads : CreateAllowanceTransaction(u, payload)
    \/ \E u \in PathUsers : DeleteLastAllowanceTransaction(u)
    \/ \E u \in PathUsers, new_settings \in SettingsInputs \cup {EmptyDoc} :
            UpdateAllowanceSettings(u, new_settings)

SpecApi == InitApi /\ [][NextApi]_vars

\* the state routes
NextStateApi ==
    \/ ApiGetState
    \/ \E new_state \in StateBodies : ApiUpdateState(new_state)
    \/ ApiResetState

SpecStateApi == InitApi /\ [][NextStateApi]_vars

\* ---------------------------------------------------------------- end of week
\* settings the parents give a child: tasksPerWeek, maximumExtraTasks and
\* the two amounts (weeklyAllowance, bonusPerExtraTask)
WeekSettings ==
    { [weeklyAllowance |-> 3, bonusPerExtraTask |-> 1,
       tasksPerWeek |-> 1, maximumExtraTasks |-> 2],
      [weeklyAllowance |-> 3, bonusPerExtraTask |-> 2,
       tasksPerWeek |-> 0, maximumExtraTasks |-> 1] }

\* dict.get(key, default)
Get(dict, key, default) == IF key \in DOMAIN dict THEN dict[key] ELSE default

Max(a, b) == IF a >= b THEN a ELSE b

\* n * x for an int n and a float x
FMul(n, x) == RoundFloat(n * x)

\* the containers of the ledger, as a record
Ledger == [accounts |-> accounts, txdocs |-> txdocs, file |-> file,
           clock |-> clock, uuids |-> uuids, call |-> last]

\* repo.add_transaction on given containers: the containers afterwards and
\* the call's record
AddTransactionIn(L, u, amount, tx_type, description) ==
    LET now == IsoFormat(L.clock + 1)
    IN  IF backend = "cosmos"
        THEN LET got         == GetOrCreateAccount(L.accounts, u)
                 account     == got.account
                 old_balance == ToFloat(account.currentBalance)
                 new_balance == NewBalance(old_balance, amount)
                 base        == TxDoc("tx_", u, L.uuids + 1, now, amount, tx_type,
                                      description, new_balance)
                 tx_doc      == IF ttl_seconds = None THEN base
                                ELSE base @@ [ttl |-> ttl_seconds[1]]
                 updated     == AccountAfterAdd(account, new_balance, now)
             IN  [ accounts |-> [got.accounts EXCEPT ![u] = updated],
                   txdocs   |-> L.txdocs \cup {tx_doc},
                   file     |-> L.file,
                   clock    |-> L.clock + 1,
                   uuids    |-> L.uuids + 1,
                   call     |-> Call("add_transaction", u,
                                     [amount |-> amount, old_balance |-> old_balance],
                                     "ok", updated, tx_doc, <<>>) ]
        ELSE LET data        == EnsureUser(FileLoad(L.file).data, u)
                 account     == data[u].account
                 old_balance == ToFloat(account.currentBalance)
                 new_balance == NewBalance(old_balance, amount)
                 tx_doc      == TxDoc("tx#", u, L.uuids + 1, now, amount, tx_type,
                                      description, new_balance)
                 updated     == AccountAfterAdd(account, new_balance, now)
                 data2       == [data EXCEPT
                                    ![u].transactions = Append(@, tx_doc),
                                    ![u].account      = updated]
             IN  [ accounts |-> L.accounts,
                   txdocs   |-> L.txdocs,
                   file     |-> FileSave(data2),
                   clock    |-> L.clock + 1,
                   uuids    |-> L.uuids + 1,
                   call     |-> Call("add_transaction", u,
                                     [amount |-> amount, old_balance |-> old_balance],
                                     "ok", updated, tx_doc, <<>>) ]

\* (variant) the extra tasks without the upper limit
ExtraTasksCompleted_Unlimited(tasks_completed, tasks_per_week, maximum_extra_tasks) ==
    Max(0, tasks_completed - tasks_per_week)

\* min(max(0, tasks_completed - tasks_per_week), maximum_extra_tasks)
ExtraTasksCompleted(tasks_completed, tasks_per_week, maximum_extra_tasks) ==
    Min(Max(0, tasks_completed - tasks_per_week), maximum_extra_tasks)

\* the element of a one-element set; binds a value that is computed once
Only(S) == CHOOSE x \in S : TRUE

\* the second half of the loop's body: the bonus, if any
SettleBonus(L1, u, extra_tasks_completed, bonus_per_extra_task) ==
    IF extra_tasks_completed # 0
    THEN AddTransactionIn(L1, u, FMul(extra_tasks_completed, bonus_per_extra_task),
                          "BONUS", <<"bonus voor extra taakjes">>)
    ELSE L1

\* the body of end_week's loop for one user
SettleUser(L, u, user_state) ==
    LET got      == GetAccountIn(L.accounts, L.file, u)
        settings == got.account.settings
        weekly_allowance      == ToFloat(Get(settings, "weeklyAllowance", 0))
        bonus_per_extra_task  == ToFloat(Get(settings, "bonusPerExtraTask", 0))
        tasks_per_week        == Get(settings, "tasksPerWeek", 1)
        maximum_extra_tasks   == Get(settings, "maximumExtraTasks", 0)
        tasks_completed       == Len(user_state.choreList)
        extra_tasks_completed == ExtraTasksCompleted(tasks_completed, tasks_per_week,
                                                     maximum_extra_tasks)
    IN  Only({ SettleBonus(L1, u, extra_tasks_completed, bonus_per_extra_task) :
               L1 \in { AddTransactionIn(
                           [L EXCEPT !.accounts = got.accounts, !.file = got.file],
                           u, weekly_allowance, "ALLOWANCE", <<"zakgeld">>) } })

\* end_week's loop over the first n users of the state
RECURSIVE SettleUsers(_, _, _, _)
SettleUsers(L, state, users, n) ==
    IF n = 0 THEN L
    ELSE Only({ SettleUser(settled, users[n], state[users[n]]) :
                settled \in { SettleUsers(L, state, users, n - 1) } })

\* what can go wrong in the repository during end_week: nothing (0), or
\* repo.get_account raises for the k-th user of the state
EndWeekRaises(state) == 0..Len(KeysOf(state))

\* POST /api/end-week. end_week catches nothing: when a repository call
\* raises, the users before it are settled, state_store.reset() is not
\* reached and the request ends as an Internal Server Error.
EndWeek ==
    /\ clock < MaxClock
    /\ request' = Request("end_week", "household2", None)
    /\ \E read \in StateReadFaults,
          fault \in StateWriteFaults(StateDefaultContent),
          rfault \in StateWriteFaults(StateDefaultContent) :
       \E loaded \in { StateStoreLoad(read, fault) } :
       \E k \in EndWeekRaises(loaded.data) :
       \E L \in { SettleUsers(Ledger, loaded.data, KeysOf(loaded.data),
                              IF k = 0 THEN Len(KeysOf(loaded.data)) ELSE k - 1) } :
       \E was \in { IF k # 0
                    THEN [file |-> loaded.file, item |-> loaded.item,
                          returned |-> "dict", ok |-> FALSE,
                          data |-> loaded.data, log |-> <<>>]
                    ELSE IF state_backend = "file"
                    THEN LET r == JsonStoreReset(loaded.file, StateDefaultContent,
                                                 rfault)
                         IN  [file |-> r.file, item |-> loaded.item,
                              returned |-> "bool", ok |-> r.ok,
                              data |-> EmptyDoc, log |-> r.log]
                    ELSE LET r == CosmosStoreReset(loaded.item, rfault)
                         IN  [file |-> loaded.file, item |-> r.item,
                              returned |-> "dict", ok |-> FALSE,
                              data |-> r.data, log |-> r.log] } :
          /\ k # 0 => rfault = NoFault
          /\ accounts' = L.accounts
          /\ txdocs' = L.txdocs
          /\ file' = L.file
          /\ clock' = L.clock
          /\ uuids' = L.uuids
          /\ last' = IF k = 0 THEN L.call
                     ELSE Call("get_account", KeysOf(loaded.data)[k], [none |-> 0],
                               "raised", NoDoc, NoDoc, <<>>)
          /\ state_file' = was.file
          /\ state_item' = was.item
          /\ store_last' = StoreCall(IF k = 0 THEN "reset" ELSE "load", "state",
                                     EmptyDoc, was.returned, was.data, was.ok,
                                     loaded.log \o was.log)
          /\ response' = IF k = 0 THEN Response(200, TRUE, "")
                         ELSE Response(500, FALSE, "Internal Server Error")
    /\ caught' = NoException
    /\ UNCHANGED <<backend, ttl_seconds, state_backend, config_file, factoryVars,
                   handlerVars>>

\* repo.update_settings(user_id, new_settings), called outside any request
\* (the settings route is a stub)
SetSettings(u, new_settings) ==
    /\ UpdateSettings(u, new_settings, <<>>)
    /\ request' = NoRequest
    /\ response' = NoResponse
    /\ caught' = NoException
    /\ UNCHANGED <<storeVars, factoryVars, handlerVars>>

NextWeek ==
    \/ \E new_state \in StateBodies : ApiUpdateState(new_state)
    \/ \E u \in {"Milou"}, new_settings \in WeekSettings : SetSettings(u, new_settings)
    \/ EndWeek

SpecWeek == InitApi /\ [][NextWeek]_vars

\* ---------------------------------------------------------------- two writes
\* The remote repository's calls that write twice, one write per step: a call
\* in progress holds its locals in `handlers` until its second write, and
\* can be interrupted between the two.
Handler(op, u, pc, old_balance, account, tx) ==
    [ op |-> op, user |-> u, pc |-> pc, old_balance |-> old_balance,
      account |-> account, tx |-> tx ]

\* add_transaction up to and including self.container.upsert_item(tx_doc)
AddWritesTransaction(u, amount, tx_type, description) ==
    /\ backend = "cosmos"
    /\ handlers = NoHandlers
    /\ clock < MaxClock
    /\ LET got         == GetOrCreateAccount(accounts, u)
           account     == got.account
           old_balance == ToFloat(account.currentBalance)
           new_balance == NewBalance(old_balance, amount)
           now         == IsoFormat(clock + 1)
           base        == TxDoc("tx_", u, uuids + 1, now, amount, tx_type,
                                description, new_balance)
           tx_doc      == IF ttl_seconds = None THEN base
                          ELSE base @@ [ttl |-> ttl_seconds[1]]
           updated     == AccountAfterAdd(account, new_balance, now)
       IN  /\ accounts' = got.accounts
           /\ txdocs' = txdocs \cup {tx_doc}
           /\ handlers' = <<Handler("add_transaction", u, "second_write",
                                    old_balance, updated, tx_doc)>>
    /\ clock' = clock + 1
    /\ uuids' = uuids + 1
    /\ UNCHANGED <<backend, ttl_seconds, file, last>>

\* delete_last_transaction up to and including its first write,
\* self.container.upsert_item(account)
DeleteWritesAccount(u) ==
    /\ backend = "cosmos"
    /\ handlers = NoHandlers
    /\ clock < MaxClock
    /\ QueryTop(txdocs, u, 1) # <<>>
    /\ LET got          == GetOrCreateAccount(accounts, u)
           account      == got.account
           transaction  == QueryTop(txdocs, u, 1)[1]
           old_balance  == ToFloat(account.currentBalance)
           new_balance  == BalanceWithout(old_balance, transaction.amount)
           now          == IsoFormat(clock + 1)
           updated      == AccountAfterDelete(account, new_balance, now)
       IN  /\ accounts' = [got.accounts EXCEPT ![u] = updated]
           /\ handlers' = <<Handler("delete_last_transaction", u, "second_write",
                                    old_balance, updated, transaction)>>
    /\ clock' = clock + 1
    /\ UNCHANGED <<backend, ttl_seconds, txdocs, file, uuids, last>>

\* the second write of the call in progress, and its return
SecondWrite ==
    /\ handlers # NoHandlers
    /\ LET h == handlers[1]
       IN  /\ IF h.op = "add_transaction"
              THEN \* self.container.upsert_item(account)
                   /\ accounts' = [accounts EXCEPT ![h.user] = h.account]
                   /\ UNCHANGED txdocs
              ELSE \* self.container.delete_item(transaction['id'], ...)
                   /\ txdocs' = {t \in txdocs : t.id # h.tx.id}
                   /\ UNCHANGED accounts
           /\ last' = Call(h.op, h.user, [old_balance |-> h.old_balance], "ok",
                           h.account, h.tx, <<>>)
    /\ handlers' = NoHandlers
    /\ UNCHANGED <<backend, ttl_seconds, file, clock, uuids>>

\* the second write raises, or the process stops before it
Interrupt ==
    /\ handlers # NoHandlers
    /\ LET h == handlers[1]
       IN  last' = Call(h.op, h.user, [old_balance |-> h.old_balance],
                        "interrupted", NoDoc, NoDoc, <<>>)
    /\ handlers' = NoHandlers
    /\ UNCHANGED <<backend, ttl_seconds, accounts, txdocs, file, clock, uuids>>

InitWrites ==
    /\ InitCosmos(None)
    /\ clock = 0
    /\ uuids = 0
    /\ last = Call("init", "Milou", [none |-> 0], "ok", NoDoc, NoDoc, <<>>)
    /\ OthersIdle

NextWrites ==
    \/ \E u \in UserIds, amount \in Amounts, tx_type \in TxTypes :
          AddWritesTransaction(u, amount, tx_type, None)
          /\ UNCHANGED <<storeVars, factoryVars, apiVars>>
    \/ \E u \in UserIds : DeleteWritesAccount(u)
                          /\ UNCHANGED <<storeVars, factoryVars, apiVars>>
    \/ SecondWrite /\ UNCHANGED <<storeVars, factoryVars, apiVars>>
    \/ Interrupt /\ UNCHANGED <<storeVars, factoryVars, apiVars>>

SpecWrites == InitWrites /\ [][NextWrites]_vars

\* ---------------------------------------------------------------- two stores
\* FileStateStore and CosmosStateStore side by side: the same calls go to
\* both, each on its own backing resource, and store_last keeps what each
\* returned, call by call. No write or read fails here.
MaxCalls == 3

PairInputs == StateInputs \cup {StateDefaultContent}

Both(f, c) == [file |-> f, cosmos |-> c]

PairCalled(f, c) ==
    store_last' = Both(Append(store_last.file, f), Append(store_last.cosmos, c))

LoadBoth ==
    /\ Len(store_last.file) < MaxCalls
    /\ LET f == JsonStoreLoad(state_file, StateDefaultContent, NoFault)
           c == CosmosStoreLoad(state_item, NoFault, NoFault)
       IN  /\ state_file' = f.file
           /\ state_item' = c.item
           /\ PairCalled(
                StoreCall("load", "state", EmptyDoc, "dict", f.data, FALSE, f.log),
                StoreCall("load", "state", EmptyDoc, "dict", c.data, FALSE, c.log))
    /\ UNCHANGED <<state_backend, config_file, ledgerVars, factoryVars,
                   handlerVars, apiVars>>

SaveBoth(data) ==
    /\ Len(store_last.file) < MaxCalls
    /\ LET f == JsonStoreSave(state_file, data, NoFault)
           c == CosmosStoreSave(state_item, data, NoFault)
       IN  /\ state_file' = f.file
           /\ state_item' = c.item
           /\ PairCalled(
                StoreCall("save", "state", data, "bool", EmptyDoc, f.ok, f.log),
                StoreCall("save", "state", data, "bool", EmptyDoc, c.ok, c.log))
    /\ UNCHANGED <<state_backend, config_file, ledgerVars, factoryVars,
                   handlerVars, apiVars>>

ResetBoth ==
    /\ Len(store_last.file) < MaxCalls
    /\ LET f == JsonStoreReset(state_file, StateDefaultContent, NoFault)
           c == CosmosStoreReset(state_item, NoFault)
       IN  /\ state_file' = f.file
           /\ state_item' = c.item
           /\ PairCalled(
                StoreCall("reset", "state", EmptyDoc, "bool", EmptyDoc, f.ok, f.log),
                StoreCall("reset", "state", EmptyDoc, "dict", c.data, FALSE, c.log))
    /\ UNCHANGED <<state_backend, config_file, ledgerVars, factoryVars,
                   handlerVars, apiVars>>

InitPair ==
    /\ state_backend = "file"
    /\ state_file = NoTextFile
    /\ state_item = NoDoc
    /\ config_file = NoTextFile
    /\ store_last = Both(<<>>, <<>>)
    /\ LedgerIdle
    /\ FactoryIdle
    /\ HandlersIdle
    /\ ApiIdle

NextPair ==
    \/ LoadBoth
    \/ \E data \in PairInputs : SaveBoth(data)
    \/ ResetBoth

SpecPair == InitPair /\ [][NextPair]_vars

\* ---------------------------------------------------------------- state manager
\* statemanager.py: the earlier StateManager on household_state.json, whose
\* state is a list of booleans per user and one for `general`, sized by the
\* task configuration that TaskConfigManager holds.

\* [False] * n
FalseList(n) == [i \in 1..n |-> FALSE]

\* StateManager.__init__: default_state
ManagerDefaultState ==
    [ k \in {"milou", "luca", "general"} |->
        IF k = "general" THEN FalseList(2) ELSE FalseList(7) ]

\* the task configurations
ManagerConfigs ==
    { [ users         |-> [u \in {"Zoe"} |-> [name |-> "Zoe", tasksPerWeek |-> 2]],
        generalTasks  |-> <<"Take out trash">>,
        personalTasks |-> <<>>,
        messages      |-> <<>> ],
      [ users         |-> [u \in {"Zoe", "Milou"} |->
                              [name |-> u, tasksPerWeek |-> IF u = "Zoe" THEN 1 ELSE 3]],
        generalTasks  |-> <<>>,
        personalTasks |-> <<>>,
        messages      |-> <<>> ] }

\* the states save_state is given
ManagerStates ==
    { [ k \in {"Zoe", "Luca", "general"} |->
          IF k = "Zoe" THEN <<TRUE, FALSE, TRUE>>
          ELSE IF k = "Luca" THEN <<TRUE>> ELSE <<TRUE, TRUE>> ],
      [ k \in {"Zoe", "general"} |->
          IF k = "Zoe" THEN <<TRUE, FALSE>> ELSE <<TRUE>> ],
      [ k \in {"Milou"} |-> <<TRUE>> ] }

\* TaskConfigManager.get_default_state_for_config
GetDefaultStateForConfig(config) ==
    [ k \in (DOMAIN config.users) \cup {"general"} |->
        IF k = "general" THEN FalseList(Len(config.generalTasks))
        ELSE FalseList(config.users[k].tasksPerWeek) ]

\* (variant) an adjustment that truncates but never extends
AdjustTasks_NeverExtends(current_tasks, expected_length) ==
    IF Len(current_tasks) > expected_length
    THEN SubSeq(current_tasks, 1, expected_length)
    ELSE current_tasks

\* load_state: one user's list, as it is, truncated or extended
AdjustTasks(current_tasks, expected_length) ==
    IF Len(current_tasks) = expected_length THEN current_tasks
    ELSE IF Len(current_tasks) > expected_length
    THEN SubSeq(current_tasks, 1, expected_length)
    ELSE current_tasks \o FalseList(expected_length - Len(current_tasks))

\* load_state: adjusted_state
AdjustedState(current_state, expected_state) ==
    [ user_id \in DOMAIN expected_state |->
        IF user_id \in DOMAIN current_state
        THEN AdjustTasks(current_state[user_id], Len(expected_state[user_id]))
        ELSE expected_state[user_id] ]

\* BaseJsonManager.load and _init_file: the parsed file, or the default
\* content after an attempt to write it
ManagerLoad(f, default_content, fault) ==
    IF f.exists /\ Parseable(f.text)
    THEN [file |-> f, data |-> JsonLoad(f.text), log |-> <<"loaded">>]
    ELSE LET r == JsonStoreSave(f, default_content, fault)
         IN  [file |-> r.file, data |-> default_content,
              log  |-> <<"load_error">>
                       \o (IF r.ok THEN <<"initialized">> ELSE <<"init_failed">>)]

\* the configuration TaskConfigManager loaded
ManagerConfig == JsonLoad(config_file.text)

\* state_manager.load_state()
ManagerLoadState ==
    /\ \E init \in FileFaults(ManagerDefaultState) :
       \E loaded \in { ManagerLoad(state_file, ManagerDefaultState, init) } :
       \E adjusted_state \in { AdjustedState(loaded.data,
                                             GetDefaultStateForConfig(ManagerConfig)) } :
       \E fault \in FileFaults(adjusted_state) :
          IF adjusted_state # loaded.data
          THEN LET r == JsonStoreSave(loaded.file, adjusted_state, fault)
               IN  /\ state_file' = r.file
                   /\ store_last' = StoreCall("load_state", "state", EmptyDoc, "dict",
                                              adjusted_state, r.ok,
                                              loaded.log \o r.log \o <<"adjusted">>)
          ELSE /\ state_file' = loaded.file
               /\ store_last' = StoreCall("load_state", "state", EmptyDoc, "dict",
                                          adjusted_state, FALSE, loaded.log)
    /\ UNCHANGED <<state_backend, state_item, config_file, ledgerVars, factoryVars,
                   handlerVars, apiVars>>

\* state_manager.save_state(new_state)
ManagerSaveState(new_state) ==
    /\ \E fault \in FileFaults(new_state) :
          LET r == JsonStoreSave(state_file, new_state, fault)
          IN  /\ state_file' = r.file
              /\ store_last' = StoreCall("save_state", "state", new_state, "bool",
                                         EmptyDoc, r.ok, r.log)
    /\ UNCHANGED <<state_backend, state_item, config_file, ledgerVars, factoryVars,
                   handlerVars, apiVars>>

InitManager ==
    /\ state_backend = "file"
    /\ state_file = NoTextFile
    /\ state_item = NoDoc
    /\ \E config \in ManagerConfigs :
          config_file = [exists |-> TRUE, text |-> JsonDump(config)]
    /\ store_last = StoreCall("init", "state", EmptyDoc, "bool", EmptyDoc, FALSE, <<>>)
    /\ LedgerIdle
    /\ FactoryIdle
    /\ HandlersIdle
    /\ ApiIdle

NextManager ==
    \/ ManagerLoadState
    \/ \E new_state \in ManagerStates : ManagerSaveState(new_state)

SpecManager == InitManager /\ [][NextManager]_vars

\* ---------------------------------------------------------------- concurrent handlers
\* The file repository under request handlers that run at the same time,
\* one per user: a call reads the whole document (store.load), changes its
\* copy, and writes the whole document back (store.save) in a later step.
FileHandler(op, pc, data, args, account, tx) ==
    [ op |-> op, pc |-> pc, data |-> data, args |-> args,
      account |-> account, tx |-> tx ]

IdleHandler == FileHandler("none", "idle", NoFile.data, [none |-> 0], NoDoc, NoDoc)

\* get_account up to self._ensure_user(data, user_id)
GetAccountLoads(u) ==
    /\ backend = "file"
    /\ handlers[u].pc = "idle"
    /\ LET loaded == FileLoad(file)
           data   == EnsureUser(loaded.data, u)
       IN  /\ file' = loaded.file
           /\ handlers' = [handlers EXCEPT ![u] =
                  FileHandler("get_account", "save", data, [none |-> 0],
                              data[u].account, NoDoc)]
    /\ UNCHANGED <<backend, ttl_seconds, accounts, txdocs, clock, uuids, last>>

\* add_transaction up to the last assignment to its copy of the document
AddTransactionLoads(u, amount, tx_type, description) ==
    /\ backend = "file"
    /\ handlers[u].pc = "idle"
    /\ clock < MaxClock
    /\ LET loaded      == FileLoad(file)
           data        == EnsureUser(loaded.data, u)
           account     == data[u].account
           old_balance == ToFloat(account.currentBalance)
           new_balance == NewBalance(old_balance, amount)
           now         == IsoFormat(clock + 1)
           tx_doc      == TxDoc("tx#", u, uuids + 1, now, amount, tx_type,
                                description, new_balance)
           updated     == AccountAfterAdd(account, new_balance, now)
           data2       == [data EXCEPT
                              ![u].transactions = Append(@, tx_doc),
                              ![u].account      = updated]
       IN  /\ file' = loaded.file
           /\ handlers' = [handlers EXCEPT ![u] =
                  FileHandler("add_transaction", "save", data2,
                              [amount |-> amount, old_balance |-> old_balance],
                              updated, tx_doc)]
    /\ clock' = clock + 1
    /\ uuids' = uuids + 1
    /\ UNCHANGED <<backend, ttl_seconds, accounts, txdocs, last>>

\* self.store.save(data) and the return of the call
HandlerSaves(u) ==
    /\ handlers[u].pc = "save"
    /\ file' = FileSave(handlers[u].data)
    /\ last' = Call(handlers[u].op, u, handlers[u].args, "ok",
                    handlers[u].account, handlers[u].tx, <<>>)
    /\ handlers' = [handlers EXCEPT ![u] = IdleHandler]
    /\ UNCHANGED <<backend, ttl_seconds, accounts, txdocs, clock, uuids>>

InitFiles ==
    /\ InitFile
    /\ clock = 0
    /\ uuids = 0
    /\ last = Call("init", "Milou", [none |-> 0], "ok", NoDoc, NoDoc, <<>>)
    /\ state_backend = "file"
    /\ StoreIdle
    /\ FactoryIdle
    /\ ApiIdle
    /\ handlers = [u \in UserIds |-> IdleHandler]

NextFiles ==
    \/ \E u \in UserIds : GetAccountLoads(u)
                          /\ UNCHANGED <<storeVars, factoryVars, apiVars>>
    \/ \E u \in UserIds, amount \in Amounts, tx_type \in TxTypes :
          AddTransactionLoads(u, amount, tx_type, None)
          /\ UNCHANGED <<storeVars, factoryVars, apiVars>>
    \/ \E u \in UserIds : HandlerSaves(u)
                          /\ UNCHANGED <<storeVars, factoryVars, apiVars>>

SpecFiles == InitFiles /\ [][NextFiles]_vars

\* ---------------------------------------------------------------- failing disk
\* The file repository on a disk whose writes can fail: BaseJsonStore.save
\* catches the error, logs it and returns False.
DiskFaults == {"none", "open", "write"}

\* BaseJsonStore.save(data) under a fault: written; not opened, so the file
\* is as before; or opened and truncated, which leaves no document that
\* load() can parse
DiskSave(f, data, fault) ==
    IF fault = "none" THEN FileSave(data)
    ELSE IF fault = "open" THEN f
    ELSE NoFile

\* BaseJsonStore.load: _init_file's write of the defaults can fail as well
DiskLoad(f, fault) ==
    IF f.exists THEN [data |-> f.data, file |-> f]
    ELSE [data |-> FileDefaultContent,
          file |-> DiskSave(f, FileDefaultContent, fault)]

DiskGetAccount(u, init, fault) ==
    /\ backend = "file"
    /\ LET loaded == DiskLoad(file, init)
           data   == EnsureUser(loaded.data, u)
       IN  /\ file' = DiskSave(loaded.file, data, fault)
           /\ last' = Call("get_account", u, [fault |-> fault], "ok",
                           data[u].account, NoDoc, <<>>)
    /\ UNCHANGED <<backend, ttl_seconds, accounts, txdocs, clock, uuids>>

DiskAddTransaction(u, amount, tx_type, description, init, fault) ==
    /\ backend = "file"
    /\ clock < MaxClock
    /\ LET loaded      == DiskLoad(file, init)
           data        == EnsureUser(loaded.data, u)
           account     == data[u].account
           old_balance == ToFloat(account.currentBalance)
           new_balance == NewBalance(old_balance, amount)
           now         == IsoFormat(clock + 1)
           tx_doc      == TxDoc("tx#", u, uuids + 1, now, amount, tx_type,
                                description, new_balance)
           updated     == AccountAfterAdd(account, new_balance, now)
           data2       == [data EXCEPT
                              ![u].transactions = Append(@, tx_doc),
                              ![u].account      = updated]
       IN  /\ file' = DiskSave(loaded.file, data2, fault)
           /\ last' = Call("add_transaction", u, [fault |-> fault],
                           "ok", updated, tx_doc, <<>>)
    /\ clock' = clock + 1
    /\ uuids' = uuids + 1
    /\ UNCHANGED <<backend, ttl_seconds, accounts, txdocs>>

DiskUpdateSettings(u, new_settings, init, fault) ==
    /\ backend = "file"
    /\ clock < MaxClock
    /\ LET loaded   == DiskLoad(file, init)
           data     == EnsureUser(loaded.data, u)
           account  == data[u].account
           settings == MergedSettings(account.settings, new_settings)
           now      == IsoFormat(clock + 1)
           updated  == AccountAfterSettings(account, settings, now)
       IN  /\ file' = DiskSave(loaded.file, [data EXCEPT ![u].account = updated], fault)
           /\ last' = Call("update_settings", u, [fault |-> fault],
                           "ok", updated, NoDoc, <<>>)
    /\ clock' = clock + 1
    /\ UNCHANGED <<backend, ttl_seconds, accounts, txdocs, uuids>>

InitDisk ==
    /\ InitFile
    /\ clock = 0
    /\ uuids = 0
    /\ last = Call("init", "Milou", [none |-> 0], "ok", NoDoc, NoDoc, <<>>)
    /\ OthersIdle

NextDisk ==
    \/ \E u \in UserIds, init \in DiskFaults, fault \in DiskFaults :
          DiskGetAccount(u, init, fault) /\ OthersUnchanged
    \/ \E u \in UserIds, amount \in Amounts, tx_type \in TxTypes,
          init \in DiskFaults, fault \in DiskFaults :
          DiskAddTransaction(u, amount, tx_type, None, init, fault) /\ OthersUnchanged
    \/ \E u \in UserIds, new_settings \in SettingsInputs,
          init \in DiskFaults, fault \in DiskFaults :
          DiskUpdateSettings(u, new_settings, init, fault) /\ OthersUnchanged

SpecDisk == InitDisk /\ [][NextDisk]_vars

\* ================================================================ claims

\* the amounts of a user's stored transactions, oldest first
RECURSIVE AmountsOldestFirst(_)
AmountsOldestFirst(S) ==
    IF S = {} THEN <<>>
    ELSE LET m == CHOOSE t \in S : \A o \in S : TimeOf(t) <= TimeOf(o)
         IN  <<m.amount>> \o AmountsOldestFirst(S \ {m})

\* a1 + ... + aN in float arithmetic, in the order the amounts were added
RECURSIVE FloatSum(_)
FloatSum(seq) ==
    IF seq = <<>> THEN ToFloat(0)
    ELSE FAdd(FloatSum(SubSeq(seq, 1, Len(seq) - 1)), seq[Len(seq)])

\* C1: for every user, after any sequence of completed add_transaction and
\* delete_last_transaction calls, currentBalance equals the sum of the
\* amounts of the transactions stored for that user.
C1_BalanceIsSumOfStored ==
    \A u \in AllUsers : Balance(u) = FloatSum(AmountsOldestFirst(StoredTxs(u)))

\* C2: add_transaction(u, amount, type) immediately followed by
\* delete_last_transaction(u) puts currentBalance back to its value before
\* the add, removes exactly the transaction the add stored and returns it.
C2_DeleteReversesAdd ==
    [][ \A u \in UserIds :
          ( /\ last.op = "add_transaction" /\ last.outcome = "ok"
            /\ last.user = u
            /\ Called("delete_last_transaction", u) )
          => ( /\ last'.outcome = "ok"
               /\ last'.tx = last.tx
               /\ StoredTxs(u)' = StoredTxs(u) \ {last.tx}
               /\ Balance(u)' = last.args.old_balance ) ]_vars

\* C3: delete_last_transaction on a user with no stored transaction does
\* not raise: it returns (account, {}), and the account's currentBalance,
\* version and lastUpdated and the stored transactions are unchanged.
C3_EmptyDeletionReturnsMarker ==
    [][ \A u \in UserIds :
          (Called("delete_last_transaction", u) /\ StoredTxs(u) = {})
          => ( /\ last'.outcome = "ok"
               /\ last'.tx = EmptyDict
               /\ last'.account = StoredAccount(u)'
               /\ Balance(u)' = Balance(u)
               /\ Version(u)' = Version(u)
               /\ StoredAccount(u) # NoDoc =>
                     StoredAccount(u)'.lastUpdated = StoredAccount(u).lastUpdated
               /\ AllStoredTxs' = AllStoredTxs ) ]_vars

C5_VersionCountsWrites ==
    [][ \A u \in UserIds :
          /\ Version(u)' >= Version(u)
          /\ Returned("add_transaction", u) => Version(u)' = Version(u) + 1
          /\ Returned("update_settings", u) => Version(u)' = Version(u) + 1
          /\ (Returned("delete_last_transaction", u) /\ StoredTxs(u)' # StoredTxs(u))
                => Version(u)' = Version(u) + 1
          /\ (\E v \in UserIds : Called("get_account", v)
                                 \/ Called("get_recent_transactions", v))
                => Version(u)' = Version(u) ]_vars

\* C6: get_recent_transactions(u, limit) returns the user's stored
\* transactions newest first, cut to the first `limit`: min(limit, number
\* stored) of them, each no older than any transaction left out, and none of
\* another user.
C6_RecentNewestFirst ==
    (last.op = "get_recent_transactions")
    => LET u    == last.user
           list == last.list
           in   == {list[i] : i \in 1..Len(list)}
       IN  /\ last.outcome = "ok"
           /\ Len(list) = Min(last.args.limit, Cardinality(StoredTxs(u)))
           /\ Cardinality(in) = Len(list)
           /\ in \subseteq StoredTxs(u)
           /\ \A t \in in : t.userId = u
           /\ \A i \in 1..Len(list), j \in 1..Len(list) :
                 i < j => TimeOf(list[i]) > TimeOf(list[j])
           /\ \A t \in in, o \in StoredTxs(u) \ in : TimeOf(t) >= TimeOf(o)

\* three transactions t1 < t2 < t3 are stored and limit = 2 returned [t3, t2]
C6_Witness ==
    /\ last.op = "get_recent_transactions" /\ last.outcome = "ok"
    /\ last.args.limit = 2
    /\ Cardinality(StoredTxs(last.user)) = 3
    /\ Len(last.list) = 2
    /\ \E o \in StoredTxs(last.user) :
          TimeOf(o) < TimeOf(last.list[2]) /\ TimeOf(last.list[2]) < TimeOf(last.list[1])

SettingsBefore(u) ==
    IF StoredAccount(u) # NoDoc THEN StoredAccount(u).settings
    ELSE IF backend = "cosmos" THEN CosmosDefaultAccount(u).settings
    ELSE FileDefaultAccount.settings

\* C9: update_settings(u, new_settings, replace=False) gives every key of
\* new_settings its new value and keeps every other existing key;
\* replace=True makes the settings equal to new_settings.  Both hold on the
\* file-backed and on the remote-backed repository.
C9_SettingsMergeOrReplace ==
    [][ \A u \in UserIds :
          Called("update_settings", u)
          => LET new == last'.args.new_settings
                 old == SettingsBefore(u)
                 now == StoredAccount(u)'.settings
             IN  /\ last'.outcome = "ok"
                 /\ last'.account = StoredAccount(u)'
                 /\ last'.args.replace = <<TRUE>> => now = new
                 /\ last'.args.replace # <<TRUE>>
                      => ( /\ DOMAIN now = (DOMAIN old) \cup (DOMAIN new)
                           /\ \A k \in DOMAIN new : now[k] = new[k]
                           /\ \A k \in (DOMAIN old) \ (DOMAIN new) : now[k] = old[k] ) ]_vars

\* t is the most recent stored transaction of its user
IsLatest(t) == \A o \in StoredTxs(t.userId) : TimeOf(o) <= TimeOf(t)

StateCalled(op) == store_last.op = op /\ store_last.store = "state"

StateMissing ==
    IF state_backend = "file"
    THEN ~(state_file.exists /\ Parseable(state_file.text))
    ELSE state_item = NoDoc

\* the state store's default content
StateDefault ==
    IF state_backend = "file" THEN StateDefaultContent ELSE CosmosStateDefault

\* the backing resource exists and holds document d
StateHolds(d) ==
    IF state_backend = "file"
    THEN state_file.exists /\ Parseable(state_file.text)
                           /\ JsonLoad(state_file.text) = d
    ELSE state_item # NoDoc /\ state_item.data = d

\* the last store call logged message tag
Logged(tag) == \E i \in DOMAIN store_last.log : store_last.log[i] = tag

\* the last store call read the backing resource without an unexpected
\* failure
ReadSucceeded == ~(state_backend = "cosmos" /\ store_last.log = <<"load_error">>)

StateHoldsArgument == StateHolds(store_last.arg)

\* C13: a save(doc) on the state store either persists doc completely and
\* returns true, or returns false and leaves the previously persisted
\* document as it was.
C13_SaveIsAtomic ==
    [][ StateCalled("save")' =>
            IF store_last'.ok
            THEN StateHoldsArgument'
            ELSE state_file' = state_file /\ state_item' = state_item
      ]_vars

\* C14: a reset() of the state store returns the store's default document
\* (a document, not a status flag), the same whatever was stored or returned
\* before, and, when its write succeeds, the backing resource holds that
\* default afterwards.
C14_ResetReturnsDefault ==
    [][ StateCalled("reset")' =>
            /\ store_last'.returned = "dict"
            /\ store_last'.data = StateDefault
            /\ Logged("saved")' => StateHolds(StateDefault)'
      ]_vars

\* the Config document config_store.load() would return now
ConfigNow ==
    IF config_file.exists /\ Parseable(config_file.text)
    THEN JsonLoad(config_file.text)
    ELSE ConfigDefaultContent

\* the State document the backing resource holds (after a successful write)
StoredState ==
    IF state_backend = "file" THEN JsonLoad(state_file.text) ELSE state_item.data

\* the State document has one entry per user of the Config plus `general`,
\* each user's sequence is len(personalTasks) * 7 long and `general` is
\* len(generalTasks) * 7 long
SizedFromConfig(state, config) ==
    /\ DOMAIN state = (DOMAIN config.users) \cup {"general"}
    /\ \A u \in DOMAIN config.users :
          Len(state[u].choreList) = Len(config.personalTasks) * 7
    /\ Len(state["general"].choreList) = Len(config.generalTasks) * 7

\* the persisted State is sized from the current Config
StoredStateFollowsConfig == SizedFromConfig(StoredState, ConfigNow)

\* C15: the State a reset() of the state store produces is sized from the
\* Config document current at the time of the call: one entry per user of
\* Config.users plus `general`, of lengths len(personalTasks) * 7 and
\* len(generalTasks) * 7.
C15_ResetFollowsConfig ==
    [][ (StateCalled("reset")' /\ Logged("saved")') => StoredStateFollowsConfig'
      ]_vars

ContractOf(factory) ==
    IF factory = "create_state_store"
    THEN StateStoreProtocol ELSE AllowanceRepositoryProtocol

\* C17: a factory returns the remote object only when the remote backend is
\* enabled; when remote is disabled or its initialisation fails and the file
\* backend is available, it returns a file-backed object that has every
\* operation of its contract; it raises only when the file backend is
\* unavailable too.
C17_FactoriesFallBackToFile ==
    (created # NoCreated) =>
        /\ created.kind = "cosmos" => UseCosmos(env)
        /\ (~(UseCosmos(env) /\ env.cosmos_init = "ok") /\ env.file_import = "ok") =>
              /\ created.outcome = "returned"
              /\ created.kind = "file"
              /\ ContractOf(created.factory) \subseteq created.methods
        /\ created.outcome = "raised" => env.file_import # "ok"

\* ---------------------------------------------------------------- API claims
\* a request is malformed: GET transactions with a limit that is not an
\* integer or not positive; POST transactions without amount, with an
\* amount that is not a JSON number, or with a type outside the three types
Malformed(req) ==
    \/ /\ req.handler = "get_allowance_transactions"
       /\ req.arg # None
       /\ ~ParseInt(req.arg[1]).ok \/ ParseInt(req.arg[1]).value <= 0
    \/ /\ req.handler = "create_allowance_transaction"
       /\ \/ req.arg.amount = None
          \/ req.arg.amount[1].kind # "number"
          \/ /\ req.arg.type # None
             /\ ~(req.arg.type[1].kind = "string"
                    /\ req.arg.type[1].text \in {"ALLOWANCE", "BONUS", "MANUAL"})

MalformedRequest == Malformed(request)

\* C18: a malformed allowance request is answered with status 400 and
\* success = false, no repository operation is invoked, and accounts and
\* transactions are unchanged.
C18_MalformedNeverReachesRepository ==
    [][ MalformedRequest' =>
            /\ response'.status = 400
            /\ ~response'.success
            /\ UNCHANGED ledgerVars
      ]_vars

\* C19: when the handler of a request has caught an exception of the
\* backend, the answer is 500 with success = false, and its error message
\* is not the text of that exception (nor of any other internal exception).
C19_BackendErrorsAreGeneric ==
    (caught.type # "none") =>
        /\ response.status = 500
        /\ ~response.success
        /\ response.error # caught.text
        /\ response.error # TupleHasNoJson


\* the chore state a load() that can read its resource returns
ChoreState == IF StateMissing THEN StateDefault ELSE StoredState

\* the settings get_account(u) answers with
SettingsOf(u) == GetAccountIn(accounts, file, u).account.settings

\* the handler of the last request read the chore state
WeekReadSucceeded ==
    ~(state_backend = "cosmos" /\ store_last.log[1] = "load_error")

\* the transactions of u of one type
TxsOfType(u, tx_type) == {t \in StoredTxs(u) : t.type = tx_type}

C21_TransactionWrittenBeforeAccount ==
    \A i \in DOMAIN handlers :
        handlers[i].pc = "second_write" =>
            /\ Balance(handlers[i].user) = handlers[i].old_balance
            /\ handlers[i].op = "add_transaction" => handlers[i].tx \in txdocs
            /\ handlers[i].op = "delete_last_transaction" =>
                  handlers[i].tx \notin txdocs


\* C22: in an end_week that reports success every user's ALLOWANCE of the
\* settlement is issued before the BONUS, and afterwards the persisted
\* chore state is the reset state.
C22_SuccessfulEndWeekHasReset ==
    [][ (request'.handler = "end_week" /\ response'.status = 200) =>
          /\ StateHolds(StateDefault)'
          /\ \A u \in AllUsers :
                \A a \in TxsOfType(u, "ALLOWANCE")' \ TxsOfType(u, "ALLOWANCE"),
                   b \in TxsOfType(u, "BONUS")' \ TxsOfType(u, "BONUS") :
                      StrLess(a.timestamp, b.timestamp)
      ]_vars


\* what a caller sees of a store call: the kind of value returned and the
\* value, a document or a bool
Seen(call) == [returned |-> call.returned, data |-> call.data, ok |-> call.ok]

\* C23: from absent backing resources, the same load/save/reset calls made
\* on the file state store and on the remote state store return equal
\* results call by call.
C23_StoresReturnTheSame ==
    \A i \in DOMAIN store_last.file :
        Seen(store_last.file[i]) = Seen(store_last.cosmos[i])


\* what household_state.json holds: the stored state, {} when there is none
ManagerStored ==
    IF state_file.exists /\ Parseable(state_file.text)
    THEN JsonLoad(state_file.text) ELSE EmptyDoc

\* the state the last call returned
ManagerReturned == store_last.data

\* the returned state fits the configuration and keeps the stored entries:
\* the configured users plus `general`, each of the expected length, a
\* prefix of the stored list padded with False
ReturnedFitsConfig ==
    [][ store_last'.op = "load_state" =>
          /\ DOMAIN ManagerReturned' = (DOMAIN ManagerConfig.users) \cup {"general"}
          /\ \A k \in DOMAIN ManagerReturned' :
                /\ Len(ManagerReturned'[k]) =
                      (IF k = "general" THEN Len(ManagerConfig.generalTasks)
                       ELSE ManagerConfig.users[k].tasksPerWeek)
                /\ \A i \in 1..Len(ManagerReturned'[k]) :
                      ManagerReturned'[k][i] =
                         (IF k \in DOMAIN ManagerStored /\ i <= Len(ManagerStored[k])
                          THEN ManagerStored[k][i] ELSE FALSE)
      ]_vars

C25_LatestBalanceAfterIsBalance ==
    \A u \in AllUsers :
        /\ \A t \in StoredTxs(u) :
              (\A s \in StoredTxs(u) : ~StrLess(t.timestamp, s.timestamp))
                 => t.balanceAfter = Balance(u)
        /\ StoredTxs(u) = {} => Balance(u) = ToFloat(0)


\* C26: on the file repository, with handlers of different users running
\* at the same time, a stored transaction stays stored whatever another
\* user's call writes, and its user's balance is the balanceAfter of that
\* user's latest transaction.
C26_NoWorkOfAnotherUserIsLost ==
    [][ \A u \in AllUsers :
          /\ \A t \in StoredTxs(u) : t \in StoredTxs(u)'
          /\ \A t \in StoredTxs(u)' : IsLatest(t)' => t.balanceAfter = Balance(u)'
      ]_vars


\* every user's currentBalance is the float sum of the stored amounts
BalancesAreSums ==
    \A u \in AllUsers : Balance(u) = FloatSum(AmountsOldestFirst(StoredTxs(u)))

\* C27: with a retention period configured, the expiry of a stored
\* transaction by the container keeps the balance invariant: when every
\* currentBalance was the sum of the stored amounts before, it is so after.
C27_ExpiryKeepsBalanceInvariant ==
    [][ ( /\ ttl_seconds # None
          /\ last' = last
          /\ txdocs' # txdocs
          /\ BalancesAreSums ) => BalancesAreSums'
      ]_vars


\* C28: on the file repository an add_transaction or update_settings that
\* returns has persisted what it returns: the stored account is the
\* returned one and a returned transaction is among the stored ones.
C28_ReturnedMeansPersisted ==
    [][ \A u \in UserIds :
          (Returned("add_transaction", u) \/ Returned("update_settings", u)) =>
              /\ StoredAccount(u)' = last'.account
              /\ last'.op = "add_transaction" => last'.tx \in StoredTxs(u)'
      ]_vars


\* the users an end_week that raised had settled before the call that
\* raised: those before the raising call's user in the chore state
SettledBeforeRaise ==
    { u \in DOMAIN ChoreState :
         \E i, j \in DOMAIN KeysOf(ChoreState) :
            /\ KeysOf(ChoreState)[i] = u
            /\ KeysOf(ChoreState)[j] = last.user
            /\ i < j }

\* C29: when an end_week fails part-way, so that the chore state is not
\* reset, and end_week is invoked again, the users the failed run had
\* settled receive no second ALLOWANCE.
C29_NoSecondAllowanceBeforeReset ==
    [][ ( /\ request.handler = "end_week"
          /\ response.status = 500
          /\ last.outcome = "raised"
          /\ request'.handler = "end_week" ) =>
             \A u \in SettledBeforeRaise :
                TxsOfType(u, "ALLOWANCE")' = TxsOfType(u, "ALLOWANCE")
      ]_vars


\* the backing resource holds the document the last call returned
StateHoldsReturned == StateHolds(store_last.data)

\* C30: whenever load() returns, the document it returns is the one the
\* backing resource holds at that moment: what was stored before, or the
\* default content this load has written.
C30_LoadReturnsWhatIsPersisted ==
    [][ StateCalled("load")' => StateHoldsReturned' ]_vars

====
